---------------------------- MODULE Spec2Model ----------------------------
(***************************************************************************)
(* A model of the document question-answering pipeline: the token-window   *)
(* chunker (src/src/pipeline/splitter.py), the heuristic answer            *)
(* synthesizer and the orchestrator process_file                           *)
(* (src/src/pipeline/run_pipeline.py), with the loader, the embedder and   *)
(* the retriever at their call boundaries.                                 *)
(*                                                                         *)
(* Text is modelled as a sequence of one-character strings and the         *)
(* tokenizer as one token per character, so that a token count is a        *)
(* length and decode is concatenation.                                     *)
(***************************************************************************)
EXTENDS Integers, Sequences, FiniteSets, TLC

(***************************************************************************)
(* Bounds of the model.                                                    *)
(***************************************************************************)
MaxTokens == 4

MaxChunkSize == 3

\* iterations of the window loop explored when it does not terminate
MaxIters == MaxTokens + 2

(***************************************************************************)
(* Program constants.                                                      *)
(***************************************************************************)
DEFAULT_CHUNK_SIZE == 400

DEFAULT_CHUNK_OVERLAP == 50

VARIABLES
    \* chunk_text, one call: its arguments, its locals, its position
    ct_text, ct_size, ct_overlap, ct_source,
    ct_start, ct_index, ct_chunks, ct_iters, ct_pc,
    \* smart_chunk_text, one call: its arguments, its locals, its position
    sm_text, sm_size, sm_overlap, sm_source,
    sm_paragraphs, sm_current, sm_index, sm_chunks, sm_pc,
    \* generate_improved_answer, one call: its arguments, its outcome
    sy_retrieved, sy_question, sy_outcome, sy_pc,
    \* history: the handler the call invoked, the working context it built, the
    \* outcome of a second call on the same arguments
    sy_handler, sy_context, sy_second,
    \* process_file, one call: its arguments, its locals, its result
    pf_file, pf_qinput, pf_questions, pf_document, pf_chunks, pf_answers,
    pf_qi, pf_results, pf_result, pf_pc,
    \* the vector index the embedder writes and the retriever queries
    store,
    \* history: the steps process_file has taken, the answer it produced for each
    \* question, whether a write to the index failed
    pf_calls, pf_log, pf_indexFailed,
    \* format_context_and_query, one call: its arguments, its locals, its result
    fm_chunks, fm_query, fm_i, fm_blocks, fm_prompt, fm_pc,
    \* embed_and_store, one call: its argument, its locals, its outcome, and the
    \* index as the call found it
    es_docs, es_upsert, es_i, es_outcome, es_before, es_pc,
    \* the endpoint /api/v1/hackrx/ask, one request: its credentials, its form,
    \* its response
    ap_token, ap_file, ap_questions, ap_response, ap_pc,
    \* make_api_request, one call: its arguments, its locals, its result
    cl_questions, cl_attempt, cl_delay, cl_result, cl_pc,
    \* history: the POST requests sent and the sleeps taken by make_api_request
    cl_posts, cl_sleeps,
    \* history: the requests served so far, the entries written to the index in
    \* the order of their upserts, the index before the first of them
    rq_served, rq_written, rq_initial

chunkVars == <<ct_text, ct_size, ct_overlap, ct_source,
               ct_start, ct_index, ct_chunks, ct_iters, ct_pc>>

smartVars == <<sm_text, sm_size, sm_overlap, sm_source,
               sm_paragraphs, sm_current, sm_index, sm_chunks, sm_pc>>

synthVars == <<sy_retrieved, sy_question, sy_outcome, sy_pc,
               sy_handler, sy_context, sy_second>>

pipeVars == <<pf_file, pf_qinput, pf_questions, pf_document, pf_chunks, pf_answers,
              pf_qi, pf_results, pf_result, pf_pc, store,
              pf_calls, pf_log, pf_indexFailed>>

formatVars == <<fm_chunks, fm_query, fm_i, fm_blocks, fm_prompt, fm_pc>>

embedVars == <<es_docs, es_upsert, es_i, es_outcome, es_before, es_pc>>

apiVars == <<ap_token, ap_file, ap_questions, ap_response, ap_pc>>

clientVars == <<cl_questions, cl_attempt, cl_delay, cl_result, cl_pc,
                cl_posts, cl_sleeps>>

sharedVars == <<rq_served, rq_written, rq_initial>>

\* the calls around the pipeline
outerVars == <<formatVars, embedVars, apiVars, clientVars, sharedVars>>

vars == <<chunkVars, smartVars, synthVars, pipeVars, outerVars>>

\* the value of a local that is not bound yet
None == [none |-> TRUE]

\* the variables of a call that a specification does not make
ChunkIdle ==
    /\ ct_text = <<>> /\ ct_size = 0 /\ ct_overlap = 0 /\ ct_source = ""
    /\ ct_start = 0 /\ ct_index = 0 /\ ct_chunks = <<>> /\ ct_iters = 0
    /\ ct_pc = "idle"

SmartIdle ==
    /\ sm_text = <<>> /\ sm_size = 0 /\ sm_overlap = 0 /\ sm_source = ""
    /\ sm_paragraphs = <<>> /\ sm_current = <<>> /\ sm_index = 0
    /\ sm_chunks = <<>> /\ sm_pc = "idle"

SynthIdle ==
    /\ sy_retrieved = <<>> /\ sy_question = <<>> /\ sy_outcome = None
    /\ sy_pc = "idle"
    /\ sy_handler = "" /\ sy_context = <<>> /\ sy_second = None

PipeIdle ==
    /\ pf_file = None /\ pf_qinput = None /\ pf_questions = <<>>
    /\ pf_document = <<>> /\ pf_chunks = <<>> /\ pf_answers = <<>>
    /\ pf_qi = 0 /\ pf_results = <<>> /\ pf_result = None /\ pf_pc = "idle"
    /\ store = {} /\ pf_calls = <<>> /\ pf_log = {} /\ pf_indexFailed = FALSE

FormatIdle ==
    /\ fm_chunks = <<>> /\ fm_query = <<>> /\ fm_i = 0 /\ fm_blocks = <<>>
    /\ fm_prompt = None /\ fm_pc = "idle"

EmbedIdle ==
    /\ es_docs = <<>> /\ es_upsert = <<>> /\ es_i = 0 /\ es_outcome = None
    /\ es_before = {} /\ es_pc = "idle"

ApiIdle ==
    /\ ap_token = None /\ ap_file = None /\ ap_questions = <<>>
    /\ ap_response = None /\ ap_pc = "idle"

ClientIdle ==
    /\ cl_questions = <<>> /\ cl_attempt = 0 /\ cl_delay = 0 /\ cl_result = None
    /\ cl_pc = "idle" /\ cl_posts = <<>> /\ cl_sleeps = <<>>

SharedIdle == rq_served = 0 /\ rq_written = <<>> /\ rq_initial = {}

OuterIdle == FormatIdle /\ EmbedIdle /\ ApiIdle /\ ClientIdle /\ SharedIdle

(***************************************************************************)
(* Helpers: integers, Python slices, str.strip().                          *)
(***************************************************************************)
Min(a, b) == IF a < b THEN a ELSE b

Max(a, b) == IF a > b THEN a ELSE b

\* Python's clamping of a slice bound i on a sequence of length n
PyIndex(i, n) == IF i < 0 THEN Max(i + n, 0) ELSE Min(i, n)

\* s[a:b] of Python, a and b zero-based and possibly negative or past the end
PySlice(s, a, b) ==
    LET lo == PyIndex(a, Len(s))
        hi == PyIndex(b, Len(s))
    IN  IF lo >= hi THEN <<>> ELSE SubSeq(s, lo + 1, hi)

\* the sequences over S of length at most n
RECURSIVE SeqsUpTo(_, _)
SeqsUpTo(S, n) ==
    IF n = 0 THEN {<<>>}
    ELSE LET shorter == SeqsUpTo(S, n - 1)
         IN  shorter \cup {Append(s, c) : s \in {t \in shorter : Len(t) = n - 1}, c \in S}

Whitespace == {" ", "\n"}

IsSpace(c) == c \in Whitespace

\* str.strip(): the text without its leading and trailing whitespace
Strip(s) ==
    LET idx == {i \in 1..Len(s) : ~IsSpace(s[i])}
    IN  IF idx = {} THEN <<>>
        ELSE LET lo == CHOOSE i \in idx : \A j \in idx : i <= j
                 hi == CHOOSE i \in idx : \A j \in idx : i >= j
             IN  SubSeq(s, lo, hi)

\* encoding.encode / encoding.decode: one token per character
Encode(text) == [i \in 1..Len(text) |-> text[i]]

Decode(tokens) == [i \in 1..Len(tokens) |-> tokens[i]]

\* f"{source_filename}-chunk-{chunk_index}"
ChunkId(source, chunk_index) == source \o "-chunk-" \o ToString(chunk_index)

(***************************************************************************)
(* chunk_text (splitter.py 13-63).                                         *)
(***************************************************************************)
\* faulty variant (C10): a chunker that refuses chunk_overlap >= chunk_size
ChunkTextRejects_guarded(text, chunk_size, chunk_overlap) ==
    \/ text = <<>>
    \/ Strip(text) = <<>>
    \/ Len(Encode(text)) = 0
    \/ chunk_overlap >= chunk_size

\* the two early returns: empty or whitespace-only text, no tokens
ChunkTextRejects(text, chunk_size, chunk_overlap) ==
    \/ text = <<>>
    \/ Strip(text) = <<>>
    \/ Len(Encode(text)) = 0

\* faulty variant (C8): the window start moves one token too far
WindowStep_offbyone(chunk_size, chunk_overlap) == chunk_size - chunk_overlap + 1

\* faulty variant (C9): the overlap is forgotten
WindowStep_nooverlap(chunk_size, chunk_overlap) == chunk_size

\* how far the window start moves per iteration (line 61)
WindowStep(chunk_size, chunk_overlap) == chunk_size - chunk_overlap

\* faulty variant (C13): the window is one token short
WindowEnd_short(start, chunk_size) == start + chunk_size - 1

\* faulty variant (C27): the end of the window is clamped to the tokens
WindowEnd_clamped(start, chunk_size) ==
    IF start + chunk_size < Len(Encode(ct_text))
    THEN start + chunk_size
    ELSE Len(Encode(ct_text))

\* line 37: end = start + chunk_size
WindowEnd(start, chunk_size) == start + chunk_size

\* faulty variant (C14): only a window without any token is skipped
EmitsWindow_untrimmed(chunk_txt) == chunk_txt # <<>>

\* line 42, if chunk_text.strip(): a whitespace-only window emits no chunk
EmitsWindow(chunk_txt) == Strip(chunk_txt) # <<>>

\* one iteration of the while loop (lines 37-61) on the locals st
ChunkLoopBody(tokens, chunk_size, chunk_overlap, source, st) ==
    LET end          == WindowEnd(st.start, chunk_size)
        chunk_tokens == PySlice(tokens, st.start, end)
        chunk_txt    == Decode(chunk_tokens)
        chunk_dict   ==
            [id       |-> ChunkId(source, st.chunk_index),
             text     |-> Strip(chunk_txt),
             metadata |-> [source      |-> source,
                           chunk_index |-> st.chunk_index,
                           start_token |-> st.start,
                           end_token   |-> end,
                           token_count |-> Len(chunk_tokens)]]
        emit         == EmitsWindow(chunk_txt)
    IN  [start       |-> st.start + WindowStep(chunk_size, chunk_overlap),
         chunk_index |-> IF emit THEN st.chunk_index + 1 ELSE st.chunk_index,
         chunks      |-> IF emit THEN Append(st.chunks, chunk_dict) ELSE st.chunks]

\* the locals before the loop (lines 32-34)
ChunkLoopInit == [start |-> 0, chunk_index |-> 0, chunks |-> <<>>]

\* the whole call when the loop terminates: the loop run to its end
RECURSIVE ChunkLoopRun(_, _, _, _, _)
ChunkLoopRun(tokens, chunk_size, chunk_overlap, source, st) ==
    IF st.start < Len(tokens)
    THEN ChunkLoopRun(tokens, chunk_size, chunk_overlap, source,
                      ChunkLoopBody(tokens, chunk_size, chunk_overlap, source, st))
    ELSE st.chunks

\* the loop of lines 36-61 ends only if the window start moves forward
ChunkTextTerminates(text, chunk_size, chunk_overlap) ==
    \/ ChunkTextRejects(text, chunk_size, chunk_overlap)
    \/ WindowStep(chunk_size, chunk_overlap) > 0

\* chunk_text as a function of its arguments; defined when chunk_overlap < chunk_size
ChunkText(text, chunk_size, chunk_overlap, source) ==
    IF ChunkTextRejects(text, chunk_size, chunk_overlap) THEN <<>>
    ELSE ChunkLoopRun(Encode(text), chunk_size, chunk_overlap, source, ChunkLoopInit)

(***************************************************************************)
(* smart_chunk_text (splitter.py 65-137).                                  *)
(***************************************************************************)
RECURSIVE SplitParagraphs(_)
\* text.split('\n\n')
SplitParagraphs(text) ==
    LET breaks == {i \in 1..(Len(text) - 1) : text[i] = "\n" /\ text[i + 1] = "\n"}
    IN  IF breaks = {} THEN <<text>>
        ELSE LET i == CHOOSE b \in breaks : \A c \in breaks : b <= c
             IN  <<SubSeq(text, 1, i - 1)>>
                     \o SplitParagraphs(SubSeq(text, i + 2, Len(text)))

\* the chunk a buffer is flushed as (lines 99-108, 126-135)
BufferChunk(current_chunk, source, chunk_index) ==
    [id       |-> ChunkId(source, chunk_index),
     text     |-> Strip(current_chunk),
     metadata |-> [source      |-> source,
                   chunk_index |-> chunk_index,
                   token_count |-> Len(Encode(current_chunk))]]

\* faulty variant (C11): the sub-chunks keep the numbers chunk_text gave them
SpliceParagraph_kept(para_chunks, source, chunk_index) == para_chunks

\* lines 116-121: the sub-chunks of an oversized paragraph, renumbered from chunk_index
SpliceParagraph(para_chunks, source, chunk_index) ==
    [i \in 1..Len(para_chunks) |->
        [para_chunks[i] EXCEPT !.id = ChunkId(source, chunk_index + i - 1),
                               !.metadata.chunk_index = chunk_index + i - 1]]

\* faulty variant (C12): only the new paragraph is measured
BufferFits_paragraph(test_chunk, paragraph, chunk_size) ==
    Len(Encode(paragraph)) <= chunk_size

\* lines 91-94: the buffer with the paragraph added is within chunk_size tokens
BufferFits(test_chunk, paragraph, chunk_size) ==
    Len(Encode(test_chunk)) <= chunk_size

\* faulty variant (C28): the buffer is emptied and the paragraph forgotten
RestartBuffer_empty(paragraph) == <<>>

\* line 113: the paragraph starts the next buffer
RestartBuffer(paragraph) == paragraph

\* one iteration of the loop over the paragraphs (lines 85-122) on the locals st
SmartLoopBody(raw_paragraph, chunk_size, chunk_overlap, source, st) ==
    LET paragraph  == Strip(raw_paragraph)
        test_chunk == IF st.current_chunk # <<>>
                      THEN st.current_chunk \o <<"\n", "\n">> \o paragraph
                      ELSE paragraph
        flush      == Strip(st.current_chunk) # <<>>
        flushed    == IF flush
                      THEN Append(st.chunks,
                                  BufferChunk(st.current_chunk, source, st.chunk_index))
                      ELSE st.chunks
        next_index == IF flush THEN st.chunk_index + 1 ELSE st.chunk_index
        para_chunks == SpliceParagraph(
                           ChunkText(paragraph, chunk_size, chunk_overlap, source),
                           source, next_index)
    IN  IF paragraph = <<>> THEN st
        ELSE IF BufferFits(test_chunk, paragraph, chunk_size)
        THEN [st EXCEPT !.current_chunk = test_chunk]
        ELSE IF Len(Encode(paragraph)) <= chunk_size
        THEN [chunks |-> flushed, current_chunk |-> RestartBuffer(paragraph),
              chunk_index |-> next_index]
        ELSE [chunks        |-> flushed \o para_chunks,
              current_chunk |-> <<>>,
              chunk_index   |-> next_index + Len(para_chunks)]

RECURSIVE SmartLoopRun(_, _, _, _, _)
SmartLoopRun(paragraphs, chunk_size, chunk_overlap, source, st) ==
    IF paragraphs = <<>> THEN st
    ELSE SmartLoopRun(Tail(paragraphs), chunk_size, chunk_overlap, source,
                      SmartLoopBody(paragraphs[1], chunk_size, chunk_overlap, source, st))

\* smart_chunk_text as a function of its arguments
SmartChunkText(text, chunk_size, chunk_overlap, source) ==
    IF text = <<>> \/ Strip(text) = <<>> THEN <<>>
    ELSE LET st == SmartLoopRun(SplitParagraphs(text), chunk_size, chunk_overlap, source,
                                [chunks |-> <<>>, current_chunk |-> <<>>, chunk_index |-> 0])
         IN  IF Strip(st.current_chunk) # <<>>
             THEN Append(st.chunks, BufferChunk(st.current_chunk, source, st.chunk_index))
             ELSE st.chunks

(***************************************************************************)
(* The answer synthesizer (run_pipeline.py 85-347).                        *)
(*                                                                         *)
(* A question is a sequence of characters and a keyword occurs in it as a  *)
(* contiguous run.  A chunk text handed to the synthesizer is a sequence   *)
(* of lexemes, and a regular expression is modelled by the lexemes of      *)
(* Lexemes it matches (each matched as a whole, matches across lexemes     *)
(* left out except for the premium ... amount pattern).  "{rupee}" stands  *)
(* for the rupee sign.  A score is in hundredths.                          *)
(***************************************************************************)
RELEVANCE_THRESHOLD == 30

CONTEXT_CHUNKS == 5

CONTEXT_PREVIEW == 500

Lexemes ==
    {"a", "premium", "{rupee}5,000", "45 days", "12/01/2024", "excluded",
     "hospitalisation", "coverage", "Insured", "Health Policy"}

NoRelevantMsg == "I couldn't find relevant information to answer this question."

InsufficientMsg ==
    "I couldn't find sufficiently relevant information to answer this question."

Returned(s) == [kind |-> "return", class |-> "", value |-> s]

Raised(cls, msg) == [kind |-> "raise", class |-> cls, value |-> msg]

\* set(x)[:5] of lines 236, 238, 272, 331: a set cannot be sliced
SetSliceError == Raised("TypeError", "'set' object is not subscriptable")

RECURSIVE Join(_, _)
\* sep.join(items)
Join(items, sep) ==
    IF items = <<>> THEN ""
    ELSE IF Len(items) = 1 THEN items[1]
    ELSE items[1] \o sep \o Join(Tail(items), sep)

\* items[:n]
Take(items, n) == SubSeq(items, 1, Min(n, Len(items)))

RECURSIVE Flatten(_)
Flatten(lists) ==
    IF lists = <<>> THEN <<>> ELSE lists[1] \o Flatten(Tail(lists))

SeqToSet(s) == {s[i] : i \in 1..Len(s)}

\* list(dict.fromkeys(items)): duplicates dropped, first occurrences in order
DedupeKeepFirst(items) ==
    LET first == {i \in 1..Len(items) : \A j \in 1..(i - 1) : items[j] # items[i]}
        F[k \in 0..Len(items)] ==
            IF k = 0 THEN <<>>
            ELSE IF k \in first THEN Append(F[k - 1], items[k]) ELSE F[k - 1]
    IN  F[Len(items)]

\* list(set(items)): every order in which the set may be iterated
ListOfSet(items) ==
    LET S == SeqToSet(items)
        n == Cardinality(S)
    IN  {p \in [1..n -> S] : \A i, j \in 1..n : i # j => p[i] # p[j]}

\* str.lower() on a character
UpperLetters ==
    <<"A", "B", "C", "D", "E", "F", "G", "H", "I", "J", "K", "L", "M",
      "N", "O", "P", "Q", "R", "S", "T", "U", "V", "W", "X", "Y", "Z">>

LowerLetters ==
    <<"a", "b", "c", "d", "e", "f", "g", "h", "i", "j", "k", "l", "m",
      "n", "o", "p", "q", "r", "s", "t", "u", "v", "w", "x", "y", "z">>

Lower(c) ==
    IF \E k \in 1..Len(UpperLetters) : UpperLetters[k] = c
    THEN LowerLetters[CHOOSE k \in 1..Len(UpperLetters) : UpperLetters[k] = c]
    ELSE c

LowerText(q) == [i \in 1..Len(q) |-> Lower(q[i])]

\* keyword in text
Occurs(keyword, text) ==
    \E i \in 0..(Len(text) - Len(keyword)) :
        \A j \in 1..Len(keyword) : text[i + j] = keyword[j]

\* any(word in question_lower for word in keywords)
AnyOccurs(keywords, text) ==
    \E k \in 1..Len(keywords) : Occurs(keywords[k], text)

\* run_pipeline.py line 105
GeneralKeywords ==
    <<<<"w", "h", "a", "t">>,
      <<"a", "b", "o", "u", "t">>,
      <<"d", "e", "s", "c", "r", "i", "b", "e">>,
      <<"e", "x", "p", "l", "a", "i", "n">>>>

\* run_pipeline.py line 108
EntityKeywords ==
    <<<<"w", "h", "o">>,
      <<"r", "e", "s", "p", "o", "n", "s", "i", "b", "l", "e">>,
      <<"p", "e", "r", "s", "o", "n">>,
      <<"c", "o", "m", "p", "a", "n", "y">>,
      <<"o", "r", "g", "a", "n", "i", "z", "a", "t", "i", "o", "n">>>>

\* run_pipeline.py line 111
TemporalKeywords ==
    <<<<"d", "a", "t", "e">>,
      <<"w", "h", "e", "n">>,
      <<"t", "i", "m", "e">>,
      <<"p", "e", "r", "i", "o", "d">>,
      <<"y", "e", "a", "r">>>>

\* run_pipeline.py line 114
FinancialKeywords ==
    <<<<"h", "o", "w", " ", "m", "u", "c", "h">>,
      <<"a", "m", "o", "u", "n", "t">>,
      <<"c", "o", "s", "t">>,
      <<"p", "r", "i", "c", "e">>,
      <<"f", "e", "e">>,
      <<"p", "r", "e", "m", "i", "u", "m">>>>

\* run_pipeline.py line 117
CoverageKeywords ==
    <<<<"c", "o", "v", "e", "r", "a", "g", "e">>,
      <<"b", "e", "n", "e", "f", "i", "t">>,
      <<"i", "n", "c", "l", "u", "d", "e">>,
      <<"c", "o", "v", "e", "r">>>>

\* run_pipeline.py line 120
ExclusionKeywords ==
    <<<<"e", "x", "c", "l", "u", "d", "e">>,
      <<"n", "o", "t", " ", "c", "o", "v", "e", "r">>,
      <<"l", "i", "m", "i", "t", "a", "t", "i", "o", "n">>,
      <<"r", "e", "s", "t", "r", "i", "c", "t", "i", "o", "n">>>>


\* re.findall(pattern, context) for a pattern given by the lexemes it matches
FindAll(pattern, context) == SelectSeq(context, LAMBDA x : x \in pattern)

\* for pattern in patterns: items.extend(re.findall(pattern, context))
FindAllOf(patterns, context) ==
    Flatten([k \in 1..Len(patterns) |-> FindAll(patterns[k], context)])

\* the vocabulary words that occur in the lower-cased lexeme
LexemeKeywords(x) ==
    CASE x = "premium"         -> {"premium"}
      [] x = "coverage"        -> {"coverage"}
      [] x = "hospitalisation" -> {"hospital"}
      [] x = "Health Policy"   -> {"health", "policy"}
      [] OTHER                 -> {}

\* keyword in context.lower()
InContext(keyword, context) ==
    \E i \in 1..Len(context) : keyword \in LexemeKeywords(context[i])

\* [keyword for keyword in keywords if keyword in context.lower()]
KeywordsFound(keywords, context) ==
    SelectSeq(keywords, LAMBDA k : InContext(k, context))

\* re.findall(r'\b[A-Za-z]{3,}\b', lexeme.lower())
LexemeWords(x) ==
    CASE x = "premium"         -> <<"premium">>
      [] x = "45 days"         -> <<"days">>
      [] x = "excluded"        -> <<"excluded">>
      [] x = "hospitalisation" -> <<"hospitalisation">>
      [] x = "coverage"        -> <<"coverage">>
      [] x = "Insured"         -> <<"insured">>
      [] x = "Health Policy"   -> <<"health", "policy">>
      [] OTHER                 -> <<>>

\* the text of a sequence of lexemes, as a string
RECURSIVE TextOf(_)
TextOf(context) ==
    IF context = <<>> THEN ""
    ELSE IF Len(context) = 1 THEN context[1]
    ELSE LET h == Len(context) \div 2
         IN  TextOf(SubSeq(context, 1, h)) \o TextOf(SubSeq(context, h + 1, Len(context)))

RECURSIVE CharLen(_)
\* len() of the text, in characters
CharLen(context) ==
    IF context = <<>> THEN 0
    ELSE IF Len(context) = 1 THEN Len(context[1])
    ELSE LET h == Len(context) \div 2
         IN  CharLen(SubSeq(context, 1, h)) + CharLen(SubSeq(context, h + 1, Len(context)))

\* context[:n], cut at a lexeme boundary: the longest prefix of at most n characters
TakeChars(context, n) ==
    LET fits == {k \in 0..Min(Len(context), n) : CharLen(SubSeq(context, 1, k)) <= n}
    IN  SubSeq(context, 1, CHOOSE k \in fits : \A m \in fits : m <= k)

\* extract_main_topics (lines 335-347)
StopWords ==
    {"the", "and", "or", "but", "in", "on", "at", "to", "for", "of", "with",
     "by", "a", "an", "is", "are", "was", "were", "be", "been", "have",
     "has", "had", "do", "does", "did", "will", "would", "could", "should",
     "may", "might", "must", "shall", "can", "this", "that", "these",
     "those", "such", "any", "all", "each", "every", "some", "many", "much",
     "more", "most", "other", "another", "same", "different", "new", "old",
     "first", "last", "good", "great", "small", "large", "big", "little",
     "long", "short", "high", "low", "right", "left", "next", "previous",
     "following", "above", "below", "here", "there", "where", "when", "why",
     "how", "what", "who", "which", "whose", "whom"}

Count(w, words) == Cardinality({i \in 1..Len(words) : words[i] = w})

\* Counter(words).most_common(n): by count, ties in order of first occurrence
MostCommon(words, n) ==
    LET distinct == DedupeKeepFirst(words)
        Pos(w)   == CHOOSE i \in 1..Len(distinct) : distinct[i] = w
        Before(v, w) ==
            \/ Count(v, words) > Count(w, words)
            \/ Count(v, words) = Count(w, words) /\ Pos(v) < Pos(w)
        Rank(w)  == 1 + Cardinality({v \in SeqToSet(distinct) : Before(v, w)})
    IN  Take([r \in 1..Len(distinct) |->
                 CHOOSE w \in SeqToSet(distinct) : Rank(w) = r], n)

extract_main_topics(context) ==
    LET words == SelectSeq(Flatten([i \in 1..Len(context) |-> LexemeWords(context[i])]),
                           LAMBDA w : w \notin StopWords)
        common_words == SelectSeq(MostCommon(words, 10), LAMBDA w : Count(w, words) > 1)
    IN  Take(common_words, 5)

\* analyze_document_content (lines 127-173)
DocTypeIndicators ==
    <<[name |-> "policy",
       keywords |-> <<"policy", "insurance", "coverage", "premium", "claim">>],
      [name |-> "medical",
       keywords |-> <<"medical", "health", "hospital", "treatment", "illness">>],
      [name |-> "legal",
       keywords |-> <<"agreement", "contract", "terms", "conditions", "obligations">>],
      [name |-> "financial",
       keywords |-> <<"payment", "cost", "amount", "fee", "charges">>]>>

\* ...Policy, ...Agreement, ...Contract, ...Plan
TitlePatterns == <<{"Health Policy"}, {}, {}, {}>>

analyze_document_content(context) ==
    LET hit == SelectSeq(DocTypeIndicators,
                         LAMBDA d : Len(KeywordsFound(d.keywords, context)) >= 2)
        doc_types == [i \in 1..Len(hit) |-> hit[i].name]
        key_info == Flatten([k \in 1..Len(TitlePatterns) |->
                                Take(FindAll(TitlePatterns[k], context), 3)])
        answer ==
            IF key_info # <<>>
            THEN "This document is a " \o Join(key_info, ", ") \o "."
            ELSE IF doc_types # <<>>
            THEN "This appears to be a " \o Join(doc_types, " and ") \o " document."
            ELSE "This document contains"
        main_topics == extract_main_topics(context)
    IN  {Returned(IF main_topics # <<>>
                  THEN answer \o " It covers topics including: "
                              \o Join(Take(main_topics, 5), ", ") \o "."
                  ELSE answer)}

\* extract_entities_and_roles (lines 175-202)
CompanyPatterns == <<{}, {}>>

RolePatterns == <<{"Insured"}, {"Health Policy"}, {}>>

extract_entities_and_roles(context) ==
    LET entities == SelectSeq(FindAllOf(CompanyPatterns \o RolePatterns, context),
                              LAMBDA m : Len(m) > 2)
        unique_entities == Take(DedupeKeepFirst(entities), 10)
    IN  {IF unique_entities # <<>>
         THEN Returned("Key entities mentioned: " \o Join(unique_entities, ", "))
         ELSE Returned("No specific entities or responsible parties clearly identified in the available context.")}

\* extract_dates_and_periods (lines 204-243)
DatePatterns == <<{"12/01/2024"}, {}, {}, {}>>

PeriodPatterns == <<{"45 days"}, {}, {}, {"45 days"}, {}>>

extract_dates_and_periods(context) ==
    LET dates == FindAllOf(DatePatterns, context)
        periods == FindAllOf(PeriodPatterns, context)
    IN  IF dates # <<>> \/ periods # <<>>
        THEN {SetSliceError}
        ELSE {Returned("No specific dates or time periods clearly identified in the available context.")}

\* extract_financial_information (lines 245-279)
RupeeAmounts == {"{rupee}5,000"}

\* r'premium.*?{rupee}\s*[\d,]+': from a "premium" to the next amount on its line
RECURSIVE PremiumAmountMatches(_)
PremiumAmountMatches(context) ==
    LET starts == {i \in 1..Len(context) :
                      /\ context[i] = "premium"
                      /\ \E j \in (i + 1)..Len(context) :
                            /\ context[j] \in RupeeAmounts
                            /\ \A m \in (i + 1)..(j - 1) : context[m] # "\n"}
    IN  IF starts = {} THEN <<>>
        ELSE LET i == CHOOSE s \in starts : \A t \in starts : s <= t
                 j == CHOOSE e \in (i + 1)..Len(context) :
                         /\ context[e] \in RupeeAmounts
                         /\ \A m \in (i + 1)..(e - 1) : context[m] \notin RupeeAmounts
             IN  <<TextOf(SubSeq(context, i, j))>>
                     \o PremiumAmountMatches(SubSeq(context, j + 1, Len(context)))

FinancialTerms ==
    <<"premium", "deductible", "co-payment", "sum insured",
      "coverage limit", "floater sum", "charges">>

extract_financial_information(context) ==
    LET financial_info == FindAllOf(<<RupeeAmounts, {}, {}>>, context)
                             \o PremiumAmountMatches(context)
                             \o FindAllOf(<<{}>>, context)
        found_terms == KeywordsFound(FinancialTerms, context)
    IN  IF financial_info # <<>>
        THEN {SetSliceError}
        ELSE IF found_terms # <<>>
        THEN {Returned("Financial terms: " \o Join(Take(found_terms, 5), ", "))}
        ELSE {Returned("No specific financial information clearly identified in the available context.")}

\* extract_coverage_information (lines 281-312)
CoveragePatterns == <<{"hospitalisation"}, {}, {}, {}, {}, {}>>

BenefitKeywords ==
    <<"indemnify", "coverage", "benefits", "treatment",
      "medical expenses", "reasonable charges", "customary charges">>

extract_coverage_information(context) ==
    LET coverage_items == FindAllOf(CoveragePatterns, context)
        found_benefits == KeywordsFound(BenefitKeywords, context)
    IN  IF coverage_items # <<>> \/ found_benefits # <<>>
        THEN {Returned("Coverage includes: " \o Join(Take(all_items, 8), ", ")) :
                 all_items \in ListOfSet(coverage_items \o found_benefits)}
        ELSE {Returned("Coverage details not clearly specified in the available context.")}

\* extract_exclusions (lines 314-333)
ExclusionPatterns == <<{"excluded"}, {}, {}, {}>>

extract_exclusions(context) ==
    LET exclusions == FindAllOf(ExclusionPatterns, context)
    IN  IF exclusions # <<>>
        THEN {SetSliceError}
        ELSE {Returned("No specific exclusions clearly identified in the available context.")}

\* faulty variant (C18): every retrieved chunk is looked at
TopChunks_all(retrieved_chunks) == retrieved_chunks

\* line 94: retrieved_chunks[:5]
TopChunks(retrieved_chunks) == Take(retrieved_chunks, CONTEXT_CHUNKS)

\* faulty variant (C17): a score equal to the threshold passes
PassesFilter_inclusive(chunk) ==
    chunk.text # <<>> /\ chunk.score >= RELEVANCE_THRESHOLD

\* line 95: chunk.get("text") and chunk.get("score", 0) > 0.3
PassesFilter(chunk) ==
    chunk.text # <<>> /\ chunk.score > RELEVANCE_THRESHOLD

\* the texts of lines 93-96: of the first five chunks, those with a text and a
\* score above the threshold
ContextTexts(retrieved_chunks) ==
    LET top == TopChunks(retrieved_chunks)
        kept == SelectSeq(top, PassesFilter)
    IN  [i \in 1..Len(kept) |-> kept[i].text]

RECURSIVE JoinTexts(_)
\* "\n\n".join(context_texts)
JoinTexts(texts) ==
    IF texts = <<>> THEN <<>>
    ELSE IF Len(texts) = 1 THEN texts[1]
    ELSE texts[1] \o <<"\n", "\n">> \o JoinTexts(Tail(texts))

\* faulty variant (C15): the entity keywords are tried before the general ones
Category_entityfirst(question) ==
    LET question_lower == LowerText(question)
    IN  IF AnyOccurs(EntityKeywords, question_lower) THEN "entity"
        ELSE IF AnyOccurs(GeneralKeywords, question_lower) THEN "general"
        ELSE IF AnyOccurs(TemporalKeywords, question_lower) THEN "temporal"
        ELSE IF AnyOccurs(FinancialKeywords, question_lower) THEN "financial"
        ELSE IF AnyOccurs(CoverageKeywords, question_lower) THEN "coverage"
        ELSE IF AnyOccurs(ExclusionKeywords, question_lower) THEN "exclusion"
        ELSE "fallback"

\* faulty variant (C16): the temporal keywords are tried before the entity ones
Category_temporalfirst(question) ==
    LET question_lower == LowerText(question)
    IN  IF AnyOccurs(GeneralKeywords, question_lower) THEN "general"
        ELSE IF AnyOccurs(TemporalKeywords, question_lower) THEN "temporal"
        ELSE IF AnyOccurs(EntityKeywords, question_lower) THEN "entity"
        ELSE IF AnyOccurs(FinancialKeywords, question_lower) THEN "financial"
        ELSE IF AnyOccurs(CoverageKeywords, question_lower) THEN "coverage"
        ELSE IF AnyOccurs(ExclusionKeywords, question_lower) THEN "exclusion"
        ELSE "fallback"

\* faulty variant (C26): the exclusion keywords are tried before the coverage ones
Category_exclusionfirst(question) ==
    LET question_lower == LowerText(question)
    IN  IF AnyOccurs(GeneralKeywords, question_lower) THEN "general"
        ELSE IF AnyOccurs(EntityKeywords, question_lower) THEN "entity"
        ELSE IF AnyOccurs(TemporalKeywords, question_lower) THEN "temporal"
        ELSE IF AnyOccurs(FinancialKeywords, question_lower) THEN "financial"
        ELSE IF AnyOccurs(ExclusionKeywords, question_lower) THEN "exclusion"
        ELSE IF AnyOccurs(CoverageKeywords, question_lower) THEN "coverage"
        ELSE "fallback"

\* the handler chosen by lines 105-125
Category(question) ==
    LET question_lower == LowerText(question)
    IN  IF AnyOccurs(GeneralKeywords, question_lower) THEN "general"
        ELSE IF AnyOccurs(EntityKeywords, question_lower) THEN "entity"
        ELSE IF AnyOccurs(TemporalKeywords, question_lower) THEN "temporal"
        ELSE IF AnyOccurs(FinancialKeywords, question_lower) THEN "financial"
        ELSE IF AnyOccurs(CoverageKeywords, question_lower) THEN "coverage"
        ELSE IF AnyOccurs(ExclusionKeywords, question_lower) THEN "exclusion"
        ELSE "fallback"

\* the general answer of line 125
TruncatedContext(combined_context) ==
    {Returned("Based on the document content: "
                 \o TextOf(TakeChars(combined_context, CONTEXT_PREVIEW))
                 \o (IF CharLen(combined_context) > CONTEXT_PREVIEW THEN "..." ELSE ""))}

\* generate_improved_answer (lines 85-125): the outcomes the call can have,
\* each a returned string or a raised exception
generate_improved_answer(retrieved_chunks, question) ==
    IF retrieved_chunks = <<>> THEN {Returned(NoRelevantMsg)}
    ELSE LET context_texts == ContextTexts(retrieved_chunks)
             combined_context == JoinTexts(context_texts)
             category == Category(question)
         IN  IF context_texts = <<>> THEN {Returned(InsufficientMsg)}
             ELSE CASE category = "general"   -> analyze_document_content(combined_context)
                    [] category = "entity"    -> extract_entities_and_roles(combined_context)
                    [] category = "temporal"  -> extract_dates_and_periods(combined_context)
                    [] category = "financial" -> extract_financial_information(combined_context)
                    [] category = "coverage"  -> extract_coverage_information(combined_context)
                    [] category = "exclusion" -> extract_exclusions(combined_context)
                    [] OTHER                  -> TruncatedContext(combined_context)

\* the handler a call invokes: none when it returns at line 90 or line 99
HandlerInvoked(retrieved_chunks, question) ==
    IF retrieved_chunks = <<>> \/ ContextTexts(retrieved_chunks) = <<>>
    THEN "none"
    ELSE Category(question)

\* combined_context of line 101, empty when the call returns before it
WorkingContext(retrieved_chunks) ==
    IF retrieved_chunks = <<>> THEN <<>>
    ELSE JoinTexts(ContextTexts(retrieved_chunks))

\* questions of the model
Q_what == <<"w", "h", "a", "t", " ", "i", "s", " ", "i", "t">>

Q_who == <<"w", "h", "o", " ", "p", "a", "y", "s">>

Q_when == <<"w", "h", "e", "n">>

Q_fee == <<"f", "e", "e">>

Q_cover == <<"c", "o", "v", "e", "r">>

Q_notcover == <<"n", "o", "t", " ", "c", "o", "v", "e", "r", "e", "d">>

Q_excluded == <<"e", "x", "c", "l", "u", "d", "e", "d">>

Q_why == <<"w", "h", "y">>

Q_default == <<"W", "h", "a", "t", " ", "i", "s", " ", "t", "h", "i", "s", " ", "d", "o", "c", "u", "m", "e", "n", "t", " ", "a", "b", "o", "u", "t", "?">>

\* "Who pays the fee and when"
Q_who_when_fee == <<"W", "h", "o", " ", "p", "a", "y", "s", " ", "t", "h", "e", " ", "f", "e", "e", " ", "a", "n", "d", " ", "w", "h", "e", "n">>

\* "Who is responsible for what"
Q_who_what == <<"W", "h", "o", " ", "i", "s", " ", "r", "e", "s", "p", "o", "n", "s", "i", "b", "l", "e", " ", "f", "o", "r", " ", "w", "h", "a", "t">>

\* "Is hospitalisation covered?"
Q_covered == <<"I", "s", " ", "h", "o", "s", "p", "i", "t", "a", "l", "i", "s", "a", "t", "i", "o", "n", " ", "c", "o", "v", "e", "r", "e", "d", "?">>

\* "What is the premium amount?"
Q_premium == <<"W", "h", "a", "t", " ", "i", "s", " ", "t", "h", "e", " ", "p", "r", "e", "m", "i", "u", "m", " ", "a", "m", "o", "u", "n", "t", "?">>

(***************************************************************************)
(* generate_improved_answer as a process: one call on drawn arguments.     *)
(***************************************************************************)
MaxMatches == 2

ScoreLevels == {30, 90}

SynthQuestions ==
    {Q_what, Q_who, Q_when, Q_fee, Q_cover, Q_notcover, Q_excluded, Q_why,
     Q_who_when_fee, Q_who_what, Q_covered, Q_premium}

\* "premium {rupee}5,000"
PremiumText == <<"premium", " ", "{rupee}5,000">>

\* a retrieved match whose text is one lexeme, or the premium text
SynthMatches ==
    {[score |-> sc, text |-> <<x>>] : sc \in ScoreLevels, x \in Lexemes}
        \cup {[score |-> 90, text |-> PremiumText]}

\* retrieved lists one longer than the synthesizer looks at, each match above
\* or at the threshold, each position with a text of its own
LongTexts == <<"a", "premium", "coverage", "Insured", "hospitalisation", "excluded">>

LongRetrieved ==
    {[i \in 1..(CONTEXT_CHUNKS + 1) |->
         [score |-> IF i \in above THEN 90 ELSE 30, text |-> <<LongTexts[i]>>]] :
        above \in SUBSET (1..(CONTEXT_CHUNKS + 1))}

SynthInit ==
    /\ sy_retrieved \in SeqsUpTo(SynthMatches, MaxMatches) \cup LongRetrieved
    /\ sy_question \in SynthQuestions
    /\ sy_outcome = None
    /\ sy_pc = "call"
    /\ sy_handler = ""
    /\ sy_context = <<>>
    /\ sy_second = None
    /\ ChunkIdle
    /\ SmartIdle
    /\ PipeIdle
    /\ OuterIdle

\* the call: it returns a string or raises
SynthCall ==
    /\ sy_pc = "call"
    /\ sy_outcome' \in generate_improved_answer(sy_retrieved, sy_question)
    /\ sy_handler' = HandlerInvoked(sy_retrieved, sy_question)
    /\ sy_context' = WorkingContext(sy_retrieved)
    /\ sy_pc' = "done"
    /\ UNCHANGED <<sy_retrieved, sy_question, sy_second, chunkVars, smartVars, outerVars, pipeVars>>

\* a second run on the same arguments
SynthRepeat ==
    /\ sy_pc = "done"
    /\ sy_second' \in generate_improved_answer(sy_retrieved, sy_question)
    /\ sy_pc' = "twice"
    /\ UNCHANGED <<sy_retrieved, sy_question, sy_outcome, sy_handler, sy_context,
                   chunkVars, smartVars, outerVars, pipeVars>>

SynthNext == SynthCall \/ SynthRepeat

SpecSynth == SynthInit /\ [][SynthNext]_vars

(***************************************************************************)
(* The collaborators of process_file at their call boundaries.             *)
(***************************************************************************)
\* load_and_clean (document_loader.py 60-99) on a file whose extractor either
\* fails or yields the text raw
load_and_clean(file) ==
    IF file.unreadable
    THEN Raised("ValueError", "Error processing file " \o file.name
                                  \o ": Unsupported file format: " \o file.name)
    ELSE IF file.raw = <<>> \/ Strip(file.raw) = <<>>
    THEN Raised("ValueError", "Error processing file " \o file.name
                                  \o ": No text could be extracted from " \o file.name)
    ELSE Returned(Strip(file.raw))

BATCH_SIZE == 100

\* to_upsert[i:i + batch_size] for i in range(0, len(to_upsert), batch_size)
Batches(items, batch_size) ==
    [b \in 1..((Len(items) + batch_size - 1) \div batch_size) |->
        SubSeq(items, (b - 1) * batch_size + 1, Min(b * batch_size, Len(items)))]

\* faulty variant (C29): the entries of the batch's sources are deleted first
Upsert_clearsource(index, batch) ==
    {e \in index : \A i \in 1..Len(batch) : batch[i].metadata.source # e.metadata.source}
        \cup {batch[i] : i \in 1..Len(batch)}

\* index.upsert(vectors=batch): an entry replaces the one with its id
Upsert(index, batch) ==
    {e \in index : \A i \in 1..Len(batch) : batch[i].id # e.id}
        \cup {batch[i] : i \in 1..Len(batch)}

RECURSIVE UpsertAll(_, _)
UpsertAll(index, batches) ==
    IF batches = <<>> THEN index
    ELSE UpsertAll(Upsert(index, batches[1]), Tail(batches))

\* faulty variant (C5): the except block logs the failed upsert and goes on
UpsertFailure_swallowed == Returned("")

\* lines 104-106: a failed upsert is raised again
UpsertFailure == Raised("Exception", "upsert failed")

\* embed_and_store (embedder.py 55-108): the outcomes of the call on the index,
\* each with the index it leaves and whether a write failed
embed_and_store(docs, index) ==
    IF docs = <<>>
    THEN {[out |-> Returned(""), index |-> index, failed |-> FALSE, written |-> <<>>]}
    ELSE LET to_upsert == [i \in 1..Len(docs) |->
                              [id       |-> docs[i].id,
                               text     |-> docs[i].text,
                               metadata |-> docs[i].metadata]]
             batches == Batches(to_upsert, BATCH_SIZE)
         IN  \* the embedding model fails before anything is written
             {[out |-> Raised("Exception", "embedding failed"),
               index |-> index, failed |-> FALSE, written |-> <<>>]}
             \cup
             \* the first k batches are written, the next one fails
             {[out |-> UpsertFailure,
               index |-> UpsertAll(index, SubSeq(batches, 1, k)),
               failed |-> TRUE,
               written |-> Flatten(SubSeq(batches, 1, k))] : k \in 0..(Len(batches) - 1)}
             \cup
             {[out |-> Returned(""), index |-> UpsertAll(index, batches),
               failed |-> FALSE, written |-> to_upsert]}

\* index.query(vector, top_k): up to top_k entries of the index, each once, by
\* descending score
QueryMatches(index, top_k) ==
    {m \in SeqsUpTo({[score |-> sc, text |-> e.text, metadata |-> e.metadata] :
                        sc \in ScoreLevels, e \in index},
                    Min(top_k, MaxMatches)) :
        /\ \A i, j \in 1..Len(m) : i < j => m[i].score >= m[j].score
        /\ \A i, j \in 1..Len(m) : i # j => m[i].metadata # m[j].metadata}

\* faulty variant (C2): the retriever lets the error of the query through
QueryFailure_raised == Raised("Exception", "query failed")

\* lines 51-53 of the retriever: an error of the query becomes an empty list
QueryFailure == Returned(<<>>)

\* retrieve_similar_chunks (retriever.py 22-53): the outcomes of the call
retrieve_similar_chunks(index, top_k) ==
    {QueryFailure}
        \cup {Returned([i \in 1..Len(m) |-> [score    |-> m[i].score,
                                             text     |-> m[i].text,
                                             metadata |-> m[i].metadata]]) :
                 m \in QueryMatches(index, top_k)}

(***************************************************************************)
(* process_file (run_pipeline.py 13-83).                                   *)
(***************************************************************************)
TOP_K == 5

\* the questions argument: a list, or None when the caller gives none
QuestionsArg(list) == [given |-> TRUE, list |-> list]

NoQuestionsArg == [given |-> FALSE, list |-> <<>>]

\* faulty variant (C7): an empty list is replaced by the default question too
DefaultQuestions_falsy(questions) ==
    IF ~questions.given \/ questions.list = <<>> THEN <<Q_default>> ELSE questions.list

\* lines 18-19
DefaultQuestions(questions) ==
    IF ~questions.given THEN <<Q_default>> ELSE questions.list

\* faulty variant (C1): except ValueError
Caught_valueerror(exc) == exc.class \in {"ValueError"}

\* line 77: the exceptions the handler catches are those of class Exception
Caught(exc) == exc.class \in {"Exception", "ValueError", "TypeError"}

\* faulty variant (C24): the answers computed so far are returned with the error
FailureResult_partial(exc) ==
    [success |-> FALSE, error |-> exc.value, answers |-> pf_answers]

\* lines 79-83
FailureResult(exc) == [success |-> FALSE, error |-> exc.value, answers |-> <<>>]

\* lines 66-75
SuccessResult(filename, answers, chunks, questions, document) ==
    [success  |-> TRUE,
     answers  |-> answers,
     metadata |-> [filename            |-> filename,
                   chunks_created      |-> Len(chunks),
                   questions_processed |-> Len(questions),
                   document_length     |-> CharLen(document)]]

\* faulty variant (C6): the answer is put in front
AppendAnswer_front(answers, answer) == <<answer>> \o answers

\* lines 57 and 62: answers.append(...)
AppendAnswer(answers, answer) == Append(answers, answer)

\* faulty variant (C3): the question without matches is skipped without an answer
PlaceholderAnswers_skipped(answers) == answers

\* lines 55-58: the answer of a question without matches
PlaceholderAnswers(answers) == AppendAnswer(answers, NoRelevantMsg)

MaxQuestions == 2

PipelineQuestions == {Q_when, Q_fee, Q_cover}

PipelineFiles ==
    {[name |-> "a.txt", unreadable |-> FALSE,
      raw |-> <<"premium", " ", "{rupee}5,000", "\n">>],
     [name |-> "a.txt", unreadable |-> FALSE,
      raw |-> <<"hospitalisation", "\n", "\n", "coverage">>],
     [name |-> "a.txt", unreadable |-> FALSE, raw |-> <<" ", "\n">>],
     [name |-> "a.txt", unreadable |-> TRUE, raw |-> <<>>]}

\* what other requests have left in the index
InitialStores ==
    {{},
     {[id |-> "b.txt-chunk-0", text |-> <<"45 days">>,
       metadata |-> [source |-> "b.txt", chunk_index |-> 0, token_count |-> 1]]}}

PipeInit ==
    /\ pf_file \in PipelineFiles
    /\ pf_qinput \in {NoQuestionsArg}
                        \cup {QuestionsArg(l) : l \in SeqsUpTo(PipelineQuestions, MaxQuestions)}
    /\ store \in InitialStores
    /\ pf_questions = <<>>
    /\ pf_document = <<>>
    /\ pf_chunks = <<>>
    /\ pf_answers = <<>>
    /\ pf_qi = 0
    /\ pf_results = <<>>
    /\ pf_result = None
    /\ pf_pc = "call"
    /\ pf_calls = <<>>
    /\ pf_log = {}
    /\ pf_indexFailed = FALSE
    /\ ChunkIdle
    /\ SmartIdle
    /\ SynthIdle
    /\ OuterIdle

Step(op, n) == [op |-> op, n |-> n]

\* lines 77-83: the handler of the try block; an exception it does not catch
\* leaves process_file
Handle(exc) ==
    IF Caught(exc)
    THEN pf_result' = FailureResult(exc) /\ pf_pc' = "Failure"
    ELSE pf_result' = None /\ pf_pc' = "Escaped"

\* lines 18-19
PfCall ==
    /\ pf_pc = "call"
    /\ pf_questions' = DefaultQuestions(pf_qinput)
    /\ pf_pc' = "Extract"
    /\ UNCHANGED <<pf_file, pf_qinput, pf_document, pf_chunks, pf_answers, pf_qi,
                   pf_results, pf_result, store, pf_calls, pf_log, pf_indexFailed,
                   chunkVars, smartVars, outerVars, synthVars>>

\* lines 26-29
PfExtract ==
    /\ pf_pc = "Extract"
    /\ pf_calls' = Append(pf_calls, Step("Extract", 0))
    /\ LET out == load_and_clean(pf_file)
       IN  IF out.kind = "raise"
           THEN Handle(out) /\ UNCHANGED pf_document
           ELSE IF out.value = <<>> \/ Strip(out.value) = <<>>
           THEN /\ Handle(Raised("ValueError",
                                 "No text could be extracted from the document"))
                /\ pf_document' = out.value
           ELSE /\ pf_document' = out.value
                /\ pf_pc' = "Chunk"
                /\ UNCHANGED pf_result
    /\ UNCHANGED <<pf_file, pf_qinput, pf_questions, pf_chunks, pf_answers, pf_qi,
                   pf_results, store, pf_log, pf_indexFailed, chunkVars, smartVars, outerVars, synthVars>>

\* lines 36-39
PfChunk ==
    /\ pf_pc = "Chunk"
    /\ pf_calls' = Append(pf_calls, Step("Chunk", 0))
    /\ LET chunks == SmartChunkText(pf_document, DEFAULT_CHUNK_SIZE,
                                    DEFAULT_CHUNK_OVERLAP, pf_file.name)
       IN  /\ pf_chunks' = chunks
           /\ IF chunks = <<>>
              THEN Handle(Raised("ValueError",
                     "No chunks generated from document. Document might be too short or empty."))
              ELSE pf_pc' = "Index" /\ UNCHANGED pf_result
    /\ UNCHANGED <<pf_file, pf_qinput, pf_questions, pf_document, pf_answers, pf_qi,
                   pf_results, store, pf_log, pf_indexFailed, chunkVars, smartVars, outerVars, synthVars>>

\* lines 45-48
PfIndex ==
    /\ pf_pc = "Index"
    /\ pf_calls' = Append(pf_calls, Step("Index", Len(pf_chunks)))
    /\ \E r \in embed_and_store(pf_chunks, store) :
          /\ store' = r.index
          /\ rq_written' = rq_written \o r.written
          /\ pf_indexFailed' = r.failed
          /\ IF r.out.kind = "raise"
             THEN Handle(r.out) /\ UNCHANGED <<pf_answers, pf_qi>>
             ELSE /\ pf_answers' = <<>>
                  /\ pf_qi' = 1
                  /\ pf_pc' = "Retrieve"
                  /\ UNCHANGED pf_result
    /\ UNCHANGED <<pf_file, pf_qinput, pf_questions, pf_document, pf_chunks,
                   pf_results, pf_log, chunkVars, smartVars, synthVars,
                   formatVars, embedVars, apiVars, clientVars, rq_served, rq_initial>>

\* lines 49-58: the next question is looked up; without matches it gets the
\* placeholder answer and the loop goes on
PfRetrieve ==
    /\ pf_pc = "Retrieve"
    /\ pf_qi <= Len(pf_questions)
    /\ pf_calls' = Append(pf_calls, Step("Retrieve", pf_qi))
    /\ \E out \in retrieve_similar_chunks(store, TOP_K) :
          IF out.kind = "raise"
          THEN Handle(out) /\ UNCHANGED <<pf_results, pf_answers, pf_qi, pf_log>>
          ELSE IF out.value = <<>>
          THEN /\ pf_answers' = PlaceholderAnswers(pf_answers)
               /\ pf_log' = pf_log \cup {[i |-> pf_qi, question |-> pf_questions[pf_qi],
                                          results |-> <<>>, answer |-> NoRelevantMsg]}
               /\ pf_qi' = pf_qi + 1
               /\ pf_results' = out.value
               /\ UNCHANGED <<pf_pc, pf_result>>
          ELSE /\ pf_results' = out.value
               /\ pf_pc' = "Synthesize"
               /\ UNCHANGED <<pf_answers, pf_qi, pf_log, pf_result>>
    /\ UNCHANGED <<pf_file, pf_qinput, pf_questions, pf_document, pf_chunks, store,
                   pf_indexFailed, chunkVars, smartVars, outerVars, synthVars>>

\* lines 61-62
PfSynthesize ==
    /\ pf_pc = "Synthesize"
    /\ pf_calls' = Append(pf_calls, Step("Synthesize", pf_qi))
    /\ \E out \in generate_improved_answer(pf_results, pf_questions[pf_qi]) :
          IF out.kind = "raise"
          THEN Handle(out) /\ UNCHANGED <<pf_answers, pf_qi, pf_log>>
          ELSE /\ pf_answers' = AppendAnswer(pf_answers, out.value)
               /\ pf_log' = pf_log \cup {[i |-> pf_qi, question |-> pf_questions[pf_qi],
                                          results |-> pf_results, answer |-> out.value]}
               /\ pf_qi' = pf_qi + 1
               /\ pf_pc' = "Retrieve"
               /\ UNCHANGED pf_result
    /\ UNCHANGED <<pf_file, pf_qinput, pf_questions, pf_document, pf_chunks,
                   pf_results, store, pf_indexFailed, chunkVars, smartVars, outerVars, synthVars>>

\* lines 66-75: the loop is over, the success result is returned
PfAssemble ==
    /\ pf_pc = "Retrieve"
    /\ pf_qi > Len(pf_questions)
    /\ pf_calls' = Append(pf_calls, Step("Assemble", 0))
    /\ pf_result' = SuccessResult(pf_file.name, pf_answers, pf_chunks, pf_questions,
                                  pf_document)
    /\ pf_pc' = "Success"
    /\ UNCHANGED <<pf_file, pf_qinput, pf_questions, pf_document, pf_chunks, pf_answers,
                   pf_qi, pf_results, store, pf_log, pf_indexFailed,
                   chunkVars, smartVars, outerVars, synthVars>>

Next ==
    \/ PfCall
    \/ PfExtract
    \/ PfChunk
    \/ PfIndex
    \/ PfRetrieve
    \/ PfSynthesize
    \/ PfAssemble

Init == PipeInit

Spec == Init /\ [][Next]_vars

(***************************************************************************)
(* Claims about process_file, checked under Spec, and about                *)
(* generate_improved_answer, checked under SpecSynth.                      *)
(***************************************************************************)
PfOps == [k \in 1..Len(pf_calls) |-> pf_calls[k].op]

PfLastOp == IF pf_calls = <<>> THEN "" ELSE pf_calls[Len(pf_calls)].op

PfReturned == pf_pc \in {"Success", "Failure"}

\* C1: no exception leaves process_file: whichever step raises, the call
\* returns {success: false, error, answers: []}, and every call that has ended
\* has returned the success result or the failure result.
C1_NoExceptionEscapes ==
    /\ pf_pc # "Escaped"
    /\ pf_pc \in {"call", "Extract", "Chunk", "Index", "Retrieve", "Synthesize",
                 "Success", "Failure"}
    /\ PfReturned <=> pf_result # None
    /\ pf_pc = "Failure" =>
          /\ DOMAIN pf_result = {"success", "error", "answers"}
          /\ pf_result.success = FALSE
          /\ pf_result.answers = <<>>
    /\ pf_pc = "Success" =>
          /\ DOMAIN pf_result = {"success", "answers", "metadata"}
          /\ pf_result.success = TRUE

\* the synthesis of an answer raised its TypeError and the call returned the
\* failure result
C1_Witness ==
    /\ pf_pc = "Failure"
    /\ PfLastOp = "Synthesize"
    /\ pf_result.error = "'set' object is not subscriptable"

\* C2: a retrieval that yields no match (the failed query included) does not end
\* the run: the question gets the fixed placeholder answer, the loop goes on to
\* the next question, and a run that succeeds returns the placeholder for it.
C2_EmptyRetrievalContinues ==
    /\ [][(pf_pc = "Retrieve" /\ pf_qi <= Len(pf_questions) /\ pf_pc' # "Synthesize")
             => /\ pf_pc' = "Retrieve"
                /\ pf_qi' = pf_qi + 1
                /\ pf_answers' = Append(pf_answers, NoRelevantMsg)
                /\ pf_result' = None]_vars
    /\ [](pf_pc = "Success" =>
             \A rec \in pf_log :
                 rec.results = <<>> => pf_result.answers[rec.i] = NoRelevantMsg)

\* a successful run whose first question had no match and whose second question
\* was answered from matches
C2_Witness ==
    /\ pf_pc = "Success"
    /\ \E r1, r2 \in pf_log :
          /\ r1.i = 1 /\ r1.results = <<>>
          /\ r2.i = 2 /\ r2.results # <<>>

\* C3 as stated: the returned answers are as many as the questions if and only
\* if success is true.
C3_LengthIffSuccess ==
    PfReturned =>
        (Len(pf_result.answers) = Len(pf_questions) <=> pf_result.success)

\* C3 as amended: the returned answers are as many as the questions if and only
\* if success is true or there is no question (a failure returns no answer).
C3_LengthIffSuccessOrNoQuestion ==
    PfReturned =>
        /\ Len(pf_result.answers) = Len(pf_questions)
              <=> (pf_result.success \/ pf_questions = <<>>)
        /\ ~pf_result.success => pf_result.answers = <<>>

\* a failed call on an empty list of questions
C3_Witness ==
    /\ pf_pc = "Failure"
    /\ pf_qinput = QuestionsArg(<<>>)

\* C4: answer synthesis never raises: it returns a sentence listing the matches
\* or the category's not-found sentence.
C4_SynthesisNeverRaises ==
    sy_pc = "done" => sy_outcome.kind = "return"

\* C5: the steps run in the order Extract, Chunk, Index, then for each question
\* in turn Retrieve and, when it found matches, Synthesize, then Assemble; a
\* failed extraction, an empty text, an empty chunk list or a failed write to
\* the index ends the call in Failure before any retrieval or synthesis, and
\* Index is never called without chunks.
C5_StepOrder ==
    /\ \A k \in 1..Len(pf_calls) :
          LET c    == pf_calls[k]
              prev == IF k = 1 THEN Step("", 0) ELSE pf_calls[k - 1]
          IN  /\ c.op \in {"Extract", "Chunk", "Index", "Retrieve", "Synthesize", "Assemble"}
              /\ (k = 1) <=> (c.op = "Extract")
              /\ c.op = "Chunk" => prev.op = "Extract"
              /\ c.op = "Index" => (prev.op = "Chunk" /\ c.n > 0)
              /\ c.op = "Retrieve" =>
                    /\ c.n \in 1..Len(pf_questions)
                    /\ \/ c.n = 1 /\ prev.op = "Index"
                       \/ c.n > 1 /\ prev.op \in {"Retrieve", "Synthesize"}
                                  /\ prev.n = c.n - 1
              /\ c.op = "Synthesize" => prev = Step("Retrieve", c.n)
              /\ c.op = "Assemble" =>
                    /\ k = Len(pf_calls)
                    /\ \/ pf_questions = <<>> /\ prev.op = "Index"
                       \/ prev.op \in {"Retrieve", "Synthesize"}
                              /\ prev.n = Len(pf_questions)
    /\ pf_pc = "Success" <=> PfLastOp = "Assemble"
    /\ (pf_calls # <<>> /\ (pf_file.unreadable \/ Strip(pf_file.raw) = <<>>))
          => (pf_pc = "Failure" /\ PfOps = <<"Extract">>)
    /\ (PfLastOp = "Chunk" /\ pf_chunks = <<>>) => pf_pc = "Failure"
    /\ pf_indexFailed => (pf_pc = "Failure" /\ PfOps = <<"Extract", "Chunk", "Index">>)

\* a write to the index failed and the call returned the failure result
C5_Witness ==
    /\ pf_indexFailed
    /\ pf_pc = "Failure"
    /\ PfOps = <<"Extract", "Chunk", "Index">>

\* C6: on success the i-th answer returned is the answer produced for the i-th
\* question: what the synthesizer returned on that question's matches, or the
\* placeholder when it had none.
C6_AnswersInQuestionOrder ==
    pf_pc = "Success" =>
        /\ Len(pf_result.answers) = Len(pf_questions)
        /\ \A i \in 1..Len(pf_questions) :
              \E rec \in pf_log :
                  /\ rec.i = i
                  /\ rec.question = pf_questions[i]
                  /\ rec.answer = pf_result.answers[i]
                  /\ IF rec.results = <<>>
                     THEN rec.answer = NoRelevantMsg
                     ELSE Returned(rec.answer)
                              \in generate_improved_answer(rec.results, pf_questions[i])

\* a successful run on two questions with two different answers
C6_Witness ==
    /\ pf_pc = "Success"
    /\ Len(pf_questions) = 2
    /\ pf_result.answers[1] # pf_result.answers[2]
    /\ pf_result.answers[2] # NoRelevantMsg

\* C7: with an empty list of questions and a document that is extracted,
\* chunked and indexed, the call succeeds with no answer, questions_processed 0
\* and no retrieval.
C7_EmptyQuestionsSucceed ==
    (pf_qinput = QuestionsArg(<<>>) /\ "Index" \in SeqToSet(PfOps) /\ pf_pc # "Failure")
        => /\ "Retrieve" \notin SeqToSet(PfOps)
           /\ pf_pc \in {"Retrieve", "Success"}
           /\ pf_pc = "Retrieve" => ENABLED PfAssemble
           /\ pf_pc = "Success" =>
                 /\ pf_result.success = TRUE
                 /\ pf_result.answers = <<>>
                 /\ pf_result.metadata.questions_processed = 0

\* the success result of a call on an empty list of questions
C7_Witness ==
    /\ pf_pc = "Success"
    /\ pf_qinput = QuestionsArg(<<>>)
    /\ PfOps = <<"Extract", "Chunk", "Index", "Assemble">>

(***************************************************************************)
(* chunk_text as a process: one action per step of the call.               *)
(***************************************************************************)
TokenChars == {"a", " "}

ChunkTexts == SeqsUpTo(TokenChars, MaxTokens)

ChunkInit ==
    /\ ct_text \in ChunkTexts
    /\ ct_size \in 0..MaxChunkSize
    /\ ct_overlap \in 0..MaxChunkSize
    /\ ct_source = "doc"
    /\ ct_start = 0
    /\ ct_index = 0
    /\ ct_chunks = <<>>
    /\ ct_iters = 0
    /\ ct_pc = "call"
    /\ SmartIdle
    /\ SynthIdle
    /\ PipeIdle
    /\ OuterIdle

\* lines 23-34: the early returns, else the tokens and the locals
ChunkEnter ==
    /\ ct_pc = "call"
    /\ IF ChunkTextRejects(ct_text, ct_size, ct_overlap)
       THEN ct_pc' = "done"
       ELSE ct_pc' = "loop"
    /\ ct_start' = ChunkLoopInit.start
    /\ ct_index' = ChunkLoopInit.chunk_index
    /\ ct_chunks' = ChunkLoopInit.chunks
    /\ UNCHANGED <<ct_text, ct_size, ct_overlap, ct_source, ct_iters, smartVars, outerVars, synthVars, pipeVars>>

\* lines 36-61: one iteration of the loop
ChunkIterate ==
    /\ ct_pc = "loop"
    /\ ct_start < Len(Encode(ct_text))
    /\ ct_iters < MaxIters
    /\ LET st == ChunkLoopBody(Encode(ct_text), ct_size, ct_overlap, ct_source,
                               [start |-> ct_start, chunk_index |-> ct_index,
                                chunks |-> ct_chunks])
       IN  /\ ct_start' = st.start
           /\ ct_index' = st.chunk_index
           /\ ct_chunks' = st.chunks
    /\ ct_iters' = ct_iters + 1
    /\ UNCHANGED <<ct_text, ct_size, ct_overlap, ct_source, ct_pc, smartVars, outerVars, synthVars, pipeVars>>

\* lines 36, 63: the loop condition fails, the chunks are returned
ChunkReturn ==
    /\ ct_pc = "loop"
    /\ ~(ct_start < Len(Encode(ct_text)))
    /\ ct_pc' = "done"
    /\ UNCHANGED <<ct_text, ct_size, ct_overlap, ct_source,
                   ct_start, ct_index, ct_chunks, ct_iters, smartVars, outerVars, synthVars, pipeVars>>

ChunkNext == ChunkEnter \/ ChunkIterate \/ ChunkReturn

SpecChunk == ChunkInit /\ [][ChunkNext]_vars

\* the interpreter runs the call on: a step that can be taken is taken
FairSpecChunk == ChunkInit /\ [][ChunkNext]_vars /\ WF_vars(ChunkNext)

\* texts of 500 tokens as the caller of line 116 hands them over, stripped
\* (line 86): without whitespace, with whitespace here and there, with
\* whitespace everywhere between the first token and the last
ScenarioTexts ==
    {[i \in 1..500 |-> "a"],
     [i \in 1..500 |-> IF i % 7 = 0 THEN " " ELSE "a"],
     [i \in 1..500 |-> IF i \in {1, 500} THEN "a" ELSE " "]}

\* a call with the default chunk_size and chunk_overlap on such a text
ScenarioInit ==
    /\ ct_text \in ScenarioTexts
    /\ ct_size = DEFAULT_CHUNK_SIZE
    /\ ct_overlap = DEFAULT_CHUNK_OVERLAP
    /\ ct_source = "doc"
    /\ ct_start = 0
    /\ ct_index = 0
    /\ ct_chunks = <<>>
    /\ ct_iters = 0
    /\ ct_pc = "call"
    /\ SmartIdle
    /\ SynthIdle
    /\ PipeIdle
    /\ OuterIdle

\* one call of chunk_text, on a short text or on a text of 500 tokens
SpecChunkScenario == (ChunkInit \/ ScenarioInit) /\ [][ChunkNext]_vars

(***************************************************************************)
(* smart_chunk_text as a process: one call, one step per paragraph.        *)
(***************************************************************************)
ParagraphChars == {"a", " ", "\n"}

\* texts of three and four paragraphs: short ones, one with an oversized
\* paragraph in the middle, one with blank paragraphs and padding
ParagraphTexts ==
    {<<"a", "\n", "\n", "a", "\n", "\n", "a">>,
     <<"a", "\n", "\n", "a", "\n", "\n", "a", "a", "a", "a", "a", "a",
       "\n", "\n", "a">>,
     <<" ", "a", " ", "\n", "\n", "\n", "a", "\n", "\n", "\n", "\n", "a", "\n">>}

SmartTexts == SeqsUpTo(ParagraphChars, MaxTokens + 2) \cup ParagraphTexts

SmartInit ==
    /\ sm_text \in SmartTexts
    /\ sm_size \in 0..(MaxChunkSize + 1)
    /\ sm_overlap \in 0..MaxChunkSize
    /\ sm_source = "doc"
    /\ sm_paragraphs = <<>>
    /\ sm_current = <<>>
    /\ sm_index = 0
    /\ sm_chunks = <<>>
    /\ sm_pc = "call"
    /\ ChunkIdle
    /\ SynthIdle
    /\ PipeIdle
    /\ OuterIdle

\* lines 74-81: the early return, else the paragraphs and the locals
SmartEnter ==
    /\ sm_pc = "call"
    /\ IF sm_text = <<>> \/ Strip(sm_text) = <<>>
       THEN sm_pc' = "done" /\ sm_paragraphs' = <<>>
       ELSE sm_pc' = "loop" /\ sm_paragraphs' = SplitParagraphs(sm_text)
    /\ sm_current' = <<>>
    /\ sm_index' = 0
    /\ sm_chunks' = <<>>
    /\ UNCHANGED <<sm_text, sm_size, sm_overlap, sm_source,
                   chunkVars, outerVars, synthVars, pipeVars>>

\* the paragraph is handed to chunk_text (line 116) and that call does not end
FallbackDiverges(raw_paragraph, current_chunk, chunk_size, chunk_overlap) ==
    LET paragraph  == Strip(raw_paragraph)
        test_chunk == IF current_chunk # <<>>
                      THEN current_chunk \o <<"\n", "\n">> \o paragraph
                      ELSE paragraph
    IN  /\ paragraph # <<>>
        /\ ~BufferFits(test_chunk, paragraph, chunk_size)
        /\ ~(Len(Encode(paragraph)) <= chunk_size)
        /\ ~ChunkTextTerminates(paragraph, chunk_size, chunk_overlap)

\* lines 85-122: one iteration of the loop over the paragraphs
SmartParagraph ==
    /\ sm_pc = "loop"
    /\ sm_paragraphs # <<>>
    /\ IF FallbackDiverges(sm_paragraphs[1], sm_current, sm_size, sm_overlap)
       THEN /\ sm_pc' = "fallback"
            /\ UNCHANGED <<sm_paragraphs, sm_current, sm_index, sm_chunks>>
       ELSE LET st == SmartLoopBody(sm_paragraphs[1], sm_size, sm_overlap, sm_source,
                                    [chunks        |-> sm_chunks,
                                     current_chunk |-> sm_current,
                                     chunk_index   |-> sm_index])
            IN  /\ sm_chunks' = st.chunks
                /\ sm_current' = st.current_chunk
                /\ sm_index' = st.chunk_index
                /\ sm_paragraphs' = Tail(sm_paragraphs)
                /\ sm_pc' = "loop"
    /\ UNCHANGED <<sm_text, sm_size, sm_overlap, sm_source,
                   chunkVars, outerVars, synthVars, pipeVars>>

\* lines 124-137: the last buffer is flushed, the chunks are returned
SmartReturn ==
    /\ sm_pc = "loop"
    /\ sm_paragraphs = <<>>
    /\ sm_chunks' = IF Strip(sm_current) # <<>>
                    THEN Append(sm_chunks, BufferChunk(sm_current, sm_source, sm_index))
                    ELSE sm_chunks
    /\ sm_pc' = "done"
    /\ UNCHANGED <<sm_text, sm_size, sm_overlap, sm_source,
                   sm_paragraphs, sm_current, sm_index, chunkVars, outerVars, synthVars, pipeVars>>

SmartNext == SmartEnter \/ SmartParagraph \/ SmartReturn

\* one call of either chunker of splitter.py
SplitterInit == ChunkInit \/ SmartInit

SplitterNext == ChunkNext \/ SmartNext

SpecSplitter == SplitterInit /\ [][SplitterNext]_vars

(***************************************************************************)
(* Claims about chunk_text, checked under SpecChunk and FairSpecChunk.     *)
(***************************************************************************)
ct_N == Len(Encode(ct_text))

ChunkInputNonEmpty == Strip(ct_text) # <<>>

ChunkConfigValid == ct_size > ct_overlap /\ ct_overlap >= 0

ChunkDone == ct_pc = "done" /\ ChunkInputNonEmpty /\ ChunkConfigValid

\* the token positions (zero-based) a chunk holds
ChunkRange(c) ==
    {i \in 0..(ct_N - 1) :
        /\ c.metadata.start_token <= i
        /\ i < c.metadata.start_token + c.metadata.token_count}

CoveredTokens == UNION {ChunkRange(ct_chunks[k]) : k \in 1..Len(ct_chunks)}

ChunksWithinCap ==
    \A k \in 1..Len(ct_chunks) :
        /\ ct_chunks[k].metadata.token_count <= ct_size
        /\ Len(Encode(ct_chunks[k].text)) <= ct_size

\* the window starts 0, step, 2*step, ... below N, step = chunk_size - chunk_overlap
WindowStarts == {s \in 0..(ct_N - 1) : s % (ct_size - ct_overlap) = 0}

WindowIsBlank(s) ==
    \A i \in s..(Min(s + ct_size, ct_N) - 1) : IsSpace(Encode(ct_text)[i + 1])

\* C8 as stated: for a non-empty text and chunk_size > chunk_overlap >= 0, every
\* chunk holds at most chunk_size tokens and the chunks' token ranges together
\* cover all of [0, N).
C8_CapAndFullCoverage ==
    ChunkDone => (ChunksWithinCap /\ CoveredTokens = 0..(ct_N - 1))

\* C8 as amended: every chunk holds at most chunk_size tokens, and the chunks'
\* token ranges together cover exactly the windows that are not whitespace-only
\* (a whitespace-only window is dropped), hence every non-whitespace token.
C8_CapAndCoverageOfNonBlankWindows ==
    ChunkDone =>
        /\ ChunksWithinCap
        /\ \A i \in 0..(ct_N - 1) :
              i \in CoveredTokens <=>
                  \E s \in WindowStarts :
                      s <= i /\ i < s + ct_size /\ ~WindowIsBlank(s)
        /\ \A i \in 0..(ct_N - 1) :
              ~IsSpace(Encode(ct_text)[i + 1]) => i \in CoveredTokens

\* a finished call that emitted two chunks and dropped a whitespace-only window,
\* leaving a token uncovered
C8_Witness ==
    /\ ChunkDone
    /\ Len(ct_chunks) >= 2
    /\ CoveredTokens # 0..(ct_N - 1)

ChunkOverlap(a, b) == Cardinality(ChunkRange(a) \cap ChunkRange(b))

\* C9 as stated: for a non-empty text and chunk_size > chunk_overlap >= 0, any two
\* consecutive chunks share exactly chunk_overlap tokens.
C9_ExactOverlap ==
    ChunkDone =>
        \A k \in 1..(Len(ct_chunks) - 1) :
            ChunkOverlap(ct_chunks[k], ct_chunks[k + 1]) = ct_overlap

\* C9 as amended: consecutive chunks start a positive multiple of
\* chunk_size - chunk_overlap apart, one step apart unless the windows between
\* them are whitespace-only; one step apart they share exactly chunk_overlap
\* tokens when the earlier chunk is a full window and otherwise the whole of the
\* later chunk (fewer than chunk_overlap tokens); further apart they share no
\* more than chunk_overlap tokens.
C9_OverlapOfAdjacentWindows ==
    ChunkDone =>
        \A k \in 1..(Len(ct_chunks) - 1) :
            LET a    == ct_chunks[k]
                b    == ct_chunks[k + 1]
                step == ct_size - ct_overlap
                gap  == b.metadata.start_token - a.metadata.start_token
                ov   == ChunkOverlap(a, b)
            IN  /\ gap > 0 /\ gap % step = 0
                /\ \A s \in WindowStarts :
                      (a.metadata.start_token < s /\ s < b.metadata.start_token)
                          => WindowIsBlank(s)
                /\ (gap = step /\ a.metadata.token_count = ct_size)
                      => ov = ct_overlap
                /\ (gap = step /\ a.metadata.token_count < ct_size)
                      => (ov = b.metadata.token_count /\ ov < ct_overlap)
                /\ ov <= ct_overlap

\* a finished call with a pair of chunks sharing exactly chunk_overlap > 0 tokens
\* followed by a pair sharing fewer
C9_Witness ==
    /\ ChunkDone
    /\ ct_overlap > 0
    /\ \E k \in 1..(Len(ct_chunks) - 2) :
          /\ ChunkOverlap(ct_chunks[k], ct_chunks[k + 1]) = ct_overlap
          /\ ChunkOverlap(ct_chunks[k + 1], ct_chunks[k + 2]) < ct_overlap

\* C10: on a non-empty text chunk_text terminates if and only if
\* chunk_overlap < chunk_size: then the window start strictly increases and the
\* call returns; with chunk_overlap >= chunk_size the start never passes the end
\* of the tokens, the call never returns and the chunker does not reject it.
C10_TerminatesIffOverlapBelowSize ==
    /\ (ChunkInputNonEmpty /\ ct_overlap < ct_size) ~> (ct_pc = "done")
    /\ [][(ct_overlap < ct_size /\ ct_pc = "loop" /\ ct_pc' = "loop")
             => ct_start' > ct_start]_vars
    /\ []((ChunkInputNonEmpty /\ ct_overlap >= ct_size)
             => (ct_pc # "done" /\ ct_start < ct_N))

\* a call with chunk_overlap >= chunk_size still in its loop after every
\* iteration the model explores
C10_Witness ==
    /\ ChunkInputNonEmpty
    /\ ct_overlap >= ct_size
    /\ ct_pc = "loop"
    /\ ct_iters = MaxIters
    /\ ct_pc = "loop"
    /\ ct_iters = MaxIters
    /\ ct_start <= 0

(***************************************************************************)
(* Claims about both chunkers, checked under SpecSplitter, and the         *)
(* 500-token scenario of chunk_text, checked under SpecChunkScenario.      *)
(***************************************************************************)
ContiguousIds(chunks, source) ==
    /\ \A k \in 1..Len(chunks) :
          /\ chunks[k].metadata.chunk_index = k - 1
          /\ chunks[k].id = ChunkId(source, k - 1)
    /\ \A j, k \in 1..Len(chunks) : j # k => chunks[j].id # chunks[k].id

\* a chunk that came out of the chunk_text fallback carries its window start
IsSubChunk(c) == "start_token" \in DOMAIN c.metadata

\* C11: within one call of chunk_text or smart_chunk_text the chunks carry
\* chunk_index 0, 1, ..., len-1 in output order and the id
\* "<source>-chunk-<chunk_index>", so that ids are unique and contiguous,
\* whatever windows were dropped and whatever sub-chunks were spliced in.
C11_ContiguousChunkIds ==
    /\ ContiguousIds(ct_chunks, ct_source)
    /\ ContiguousIds(sm_chunks, sm_source)

\* a finished smart_chunk_text call whose first chunk is a flushed buffer and
\* whose next chunks are sub-chunks around a dropped whitespace-only window
C11_Witness ==
    /\ sm_pc = "done"
    /\ Len(sm_chunks) = 3
    /\ ~IsSubChunk(sm_chunks[1])
    /\ IsSubChunk(sm_chunks[2]) /\ IsSubChunk(sm_chunks[3])
    /\ sm_chunks[3].metadata.start_token
           > sm_chunks[2].metadata.start_token + WindowStep(sm_size, sm_overlap)

\* C12: smart_chunk_text never emits a chunk of more than chunk_size tokens,
\* be it a flushed buffer or a sub-chunk of an oversized paragraph.
C12_SmartChunksWithinCap ==
    \A k \in 1..Len(sm_chunks) :
        /\ sm_chunks[k].metadata.token_count <= sm_size
        /\ Len(Encode(sm_chunks[k].text)) <= sm_size

\* a finished call that flushed a buffer of exactly chunk_size tokens and
\* then split an oversized paragraph
C12_Witness ==
    /\ sm_pc = "done"
    /\ Len(sm_chunks) >= 3
    /\ ~IsSubChunk(sm_chunks[1])
    /\ sm_chunks[1].metadata.token_count = sm_size
    /\ IsSubChunk(sm_chunks[2])

ScenarioCall == ct_N = 500 /\ ct_size = 400 /\ ct_overlap = 50

\* the chunk holds exactly the tokens [lo, hi)
HoldsTokens(c, lo, hi) ==
    /\ c.metadata.start_token = lo
    /\ c.metadata.token_count = hi - lo
    /\ ChunkRange(c) = lo..(hi - 1)

C14_BlankInputNoChunks ==
    /\ (ct_pc # "idle" /\ Strip(ct_text) = <<>>) =>
          (ct_pc \in {"call", "done"} /\ ct_chunks = <<>>)
    /\ (sm_pc # "idle" /\ Strip(sm_text) = <<>>) =>
          (sm_pc \in {"call", "done"} /\ sm_chunks = <<>>)
    /\ \A k \in 1..Len(ct_chunks) : Strip(ct_chunks[k].text) # <<>>
    /\ \A k \in 1..Len(sm_chunks) : Strip(sm_chunks[k].text) # <<>>

\* smart_chunk_text has returned the empty list on a whitespace-only text
C14_Witness ==
    /\ sm_pc = "done"
    /\ sm_text # <<>>
    /\ Strip(sm_text) = <<>>
    /\ sm_chunks = <<>>

(***************************************************************************)
(* Claims about generate_improved_answer, checked under SpecSynth.         *)
(***************************************************************************)
SynthDone == sy_pc \in {"done", "twice"}

\* the positions of the retrieved list whose match is used
UsedPositions ==
    {i \in 1..Len(sy_retrieved) :
        i <= 5 /\ sy_retrieved[i].score > 30}

FilterPasses == UsedPositions # {}

\* the keyword sets in their priority order, with the handler of each
HandlerOrder ==
    <<[handler |-> "general",   keywords |-> GeneralKeywords],
      [handler |-> "entity",    keywords |-> EntityKeywords],
      [handler |-> "temporal",  keywords |-> TemporalKeywords],
      [handler |-> "financial", keywords |-> FinancialKeywords],
      [handler |-> "coverage",  keywords |-> CoverageKeywords],
      [handler |-> "exclusion", keywords |-> ExclusionKeywords]>>

\* the keyword sets with a keyword in the lower-cased question
MatchingSets(question) ==
    {k \in 1..Len(HandlerOrder) :
        AnyOccurs(HandlerOrder[k].keywords, LowerText(question))}

FirstMatchingHandler(question) ==
    IF MatchingSets(question) = {} THEN "fallback"
    ELSE HandlerOrder[CHOOSE k \in MatchingSets(question) :
                         \A m \in MatchingSets(question) : k <= m].handler

\* what a handler can return or raise on a context
HandlerOutcomes(handler, context) ==
    CASE handler = "general"   -> analyze_document_content(context)
      [] handler = "entity"    -> extract_entities_and_roles(context)
      [] handler = "temporal"  -> extract_dates_and_periods(context)
      [] handler = "financial" -> extract_financial_information(context)
      [] handler = "coverage"  -> extract_coverage_information(context)
      [] handler = "exclusion" -> extract_exclusions(context)
      [] OTHER                 -> TruncatedContext(context)

\* C15: once the relevance filter passes, the call invokes exactly one handler,
\* the first in the order general, entity, temporal, financial, coverage,
\* exclusion whose keyword set has a keyword in the lower-cased question, and
\* the generic truncated-context answer when no set matches.
C15_FirstMatchingHandler ==
    (SynthDone /\ FilterPasses) =>
        /\ sy_handler = FirstMatchingHandler(sy_question)
        /\ sy_outcome \in HandlerOutcomes(sy_handler, sy_context)
        /\ MatchingSets(sy_question) = {} =>
              sy_outcome \in TruncatedContext(sy_context)

\* a question with a coverage keyword and an exclusion keyword went to the
\* coverage handler
C15_Witness ==
    /\ SynthDone
    /\ FilterPasses
    /\ MatchingSets(sy_question) = {5, 6}
    /\ sy_handler = "coverage"
    /\ sy_outcome.kind = "return"

ContainsWho(question) == Occurs(<<"w", "h", "o">>, LowerText(question))

\* C16 as stated: a question containing "who" goes to the entity handler even
\* if keywords of the general, temporal and financial sets appear in it too.
C16_WhoIsEntity ==
    (SynthDone /\ FilterPasses /\ ContainsWho(sy_question)) =>
        sy_handler = "entity"

\* C16 as amended: a question containing "who" goes to the entity handler even
\* if temporal and financial keywords appear in it too, unless a general
\* keyword appears in it: then it goes to the general handler.
C16_WhoIsEntityUnlessGeneral ==
    (SynthDone /\ FilterPasses /\ ContainsWho(sy_question)) =>
        IF AnyOccurs(GeneralKeywords, LowerText(sy_question))
        THEN sy_handler = "general"
        ELSE sy_handler = "entity"

\* a question with "who", a temporal keyword and a financial keyword went to
\* the entity handler
C16_Witness ==
    /\ SynthDone
    /\ FilterPasses
    /\ ContainsWho(sy_question)
    /\ MatchingSets(sy_question) = {2, 3, 4}
    /\ sy_handler = "entity"

UsedPosition(k) ==
    CHOOSE i \in UsedPositions : Cardinality({j \in UsedPositions : j < i}) = k - 1

\* C18: the working context is the texts, in input order and joined by a blank
\* line, of exactly the matches among the first five whose score is above
\* 0.30; a match at position 6 or later never contributes.
C18_ContextOfFirstFive ==
    (SynthDone /\ FilterPasses) =>
        /\ SplitParagraphs(sy_context) =
              [k \in 1..Cardinality(UsedPositions) |-> sy_retrieved[UsedPosition(k)].text]
        /\ Len(SplitParagraphs(sy_context)) <= 5
        /\ sy_handler = "fallback" =>
              sy_outcome = Returned("Based on the document content: " \o TextOf(sy_context))

\* a call on six matches, the first below the threshold and the sixth above
\* it, answered with the truncated context built from two or more of the others
C18_Witness ==
    /\ SynthDone
    /\ Len(sy_retrieved) = 6
    /\ sy_retrieved[1].score <= 30
    /\ sy_retrieved[6].score > 30
    /\ Cardinality(UsedPositions) >= 2
    /\ sy_handler = "fallback"

PremiumScenario ==
    /\ SynthDone
    /\ sy_question = Q_premium
    /\ sy_retrieved = <<[score |-> 90, text |-> PremiumText]>>

\* C19: the question "What is the premium amount?" on a context containing
\* "premium {rupee}5,000" gets the report of the financial extractor, with the
\* amount and the term premium.
C19_PremiumScenarioFinancial ==
    PremiumScenario =>
        /\ sy_handler = "financial"
        /\ sy_outcome.kind = "return"
        /\ sy_outcome \in extract_financial_information(sy_context)

\* C20: two runs on the same retrieved list and question return the same
\* string, with the deduplicated items in the same order.
C20_SynthesisDeterministic ==
    sy_pc = "twice" => sy_second = sy_outcome

(***************************************************************************)
(* format_context_and_query (formatter.py 3-36) as a process: one call,    *)
(* one step per retrieved chunk.                                           *)
(***************************************************************************)
\* the texts a retrieved chunk can carry: none, whitespace, text, padded text
FormatTexts == {<<>>, <<" ">>, <<"a">>, <<" ", "b", "\n">>}

FormatChunks == SeqsUpTo({[text |-> t] : t \in FormatTexts}, MaxMatches + 1)

\* faulty variant (C21): the chunks are numbered from zero
BlockLabel_zero(i) == "[" \o ToString(i) \o "]"

\* line 19, f"[{i+1}]": the label of the chunk enumerate() gives the index i
BlockLabel(i) == "[" \o ToString(i + 1) \o "]"

\* line 19: f"[{i+1}] {context}"
ContextBlock(i, context) == <<BlockLabel(i), " ">> \o context

\* line 22
NoContextBlock == <<"[No relevant context retrieved]">>

\* lines 24-34: the blocks joined by blank lines inside the fixed template
FormattedPrompt(context_blocks, user_query) ==
    <<"You are an expert assistant. Use the following retrieved context to answer the user's question.",
      "\n", "    ", "\n", "Context:", "\n">>
        \o JoinTexts(context_blocks)
        \o <<"\n", "\n", "Question:", "\n">> \o user_query
        \o <<"\n", "\n", "Answer:">>

FormatInit ==
    /\ fm_chunks \in FormatChunks
    /\ fm_query \in {Q_why}
    /\ fm_i = 0
    /\ fm_blocks = <<>>
    /\ fm_prompt = None
    /\ fm_pc = "call"
    /\ EmbedIdle /\ ApiIdle /\ ClientIdle /\ SharedIdle
    /\ ChunkIdle
    /\ SmartIdle
    /\ SynthIdle
    /\ PipeIdle

\* line 15
FormatEnter ==
    /\ fm_pc = "call"
    /\ fm_blocks' = <<>>
    /\ fm_i' = 0
    /\ fm_pc' = "loop"
    /\ UNCHANGED <<fm_chunks, fm_query, fm_prompt, embedVars, apiVars, clientVars,
                   sharedVars, chunkVars, smartVars, synthVars, pipeVars>>

\* lines 16-19: one iteration of the loop over enumerate(retrieved_chunks)
FormatChunk ==
    /\ fm_pc = "loop"
    /\ fm_i < Len(fm_chunks)
    /\ LET context == Strip(fm_chunks[fm_i + 1].text)
       IN  fm_blocks' = IF context # <<>>
                        THEN Append(fm_blocks, ContextBlock(fm_i, context))
                        ELSE fm_blocks
    /\ fm_i' = fm_i + 1
    /\ UNCHANGED <<fm_chunks, fm_query, fm_prompt, fm_pc, embedVars, apiVars,
                   clientVars, sharedVars, chunkVars, smartVars, synthVars, pipeVars>>

\* lines 21-36: the placeholder when no block was made, then the prompt
FormatReturn ==
    /\ fm_pc = "loop"
    /\ fm_i = Len(fm_chunks)
    /\ fm_blocks' = IF fm_blocks = <<>> THEN <<NoContextBlock>> ELSE fm_blocks
    /\ fm_prompt' = FormattedPrompt(fm_blocks', fm_query)
    /\ fm_pc' = "done"
    /\ UNCHANGED <<fm_chunks, fm_query, fm_i, embedVars, apiVars, clientVars,
                   sharedVars, chunkVars, smartVars, synthVars, pipeVars>>

FormatNext == FormatEnter \/ FormatChunk \/ FormatReturn

SpecFormat == FormatInit /\ [][FormatNext]_vars

(***************************************************************************)
(* Claims about format_context_and_query, checked under SpecFormat.        *)
(***************************************************************************)
\* the positions (one-based) of the chunks whose trimmed text is not empty
TextPositions == {i \in 1..Len(fm_chunks) : Strip(fm_chunks[i].text) # <<>>}

\* the k-th smallest position among them
RECURSIVE NthPosition(_, _)
NthPosition(S, k) ==
    LET m == CHOOSE x \in S : \A y \in S : x <= y
    IN  IF k = 1 THEN m ELSE NthPosition(S \ {m}, k - 1)

FormatDone == fm_pc = "done"

\* one block per chunk with text, in input order, each the chunk's trimmed text
\* behind some label; the placeholder alone when no chunk has text
BlocksFollowChunks ==
    IF TextPositions = {}
    THEN fm_blocks = <<NoContextBlock>>
    ELSE /\ Len(fm_blocks) = Cardinality(TextPositions)
         /\ \A k \in 1..Len(fm_blocks) :
               /\ Len(fm_blocks[k]) >= 2
               /\ SubSeq(fm_blocks[k], 2, Len(fm_blocks[k]))
                     = <<" ">> \o Strip(fm_chunks[NthPosition(TextPositions, k)].text)

\* C21 as stated: the call emits one context block per chunk with non-empty
\* trimmed text, in input order, and the k-th emitted block carries the label
\* [k]; chunks without text are skipped; without any such chunk the context is
\* the single placeholder line.
C21_BlocksNumberedConsecutively ==
    FormatDone =>
        /\ BlocksFollowChunks
        /\ TextPositions # {} =>
              \A k \in 1..Len(fm_blocks) :
                  fm_blocks[k][1] = "[" \o ToString(k) \o "]"

\* C21 as amended: the call emits one context block per chunk with non-empty
\* trimmed text, in input order, and the block of the chunk at input position p
\* (counted from 1) carries the label [p], so that the labels increase and skip
\* the numbers of the skipped chunks; without any chunk with text the context is
\* the single placeholder line; the prompt holds the blocks joined by blank lines.
C21_BlocksNumberedByInputPosition ==
    FormatDone =>
        /\ BlocksFollowChunks
        /\ TextPositions # {} =>
              \A k \in 1..Len(fm_blocks) :
                  fm_blocks[k][1]
                      = "[" \o ToString(NthPosition(TextPositions, k)) \o "]"
        /\ fm_prompt = FormattedPrompt(fm_blocks, fm_query)

\* a finished call that skipped a chunk without text and then emitted a block
\* for a later chunk, under that chunk's own number
C21_Witness ==
    /\ FormatDone
    /\ Len(fm_chunks) >= 3
    /\ 1 \notin TextPositions
    /\ Cardinality(TextPositions) >= 2
    /\ fm_blocks[1][1] = "[2]"

(***************************************************************************)
(* The HTTP surface: app (main.py), hackrx_router and ask_questions        *)
(* (hackrx_router.py), verify_token (auth.py). One request to              *)
(* POST /api/v1/hackrx/ask, served by process_file.                        *)
(***************************************************************************)
\* auth.py line 3: the static token of the configuration
TOKEN == "configured-token"

\* the credentials of a request: the configured token or another one
RequestTokens == {TOKEN, "another-token"}

\* verify_token (auth.py 7-12)
verify_token(credentials) ==
    IF credentials # TOKEN
    THEN Raised("HTTPException", "401 Unauthorized")
    ELSE Returned("")

\* the dependencies FastAPI runs before ask_questions: none is declared, neither
\* by the application (main.py 7-11), nor when the router is included (main.py
\* 33), nor by the router (hackrx_router.py 6) nor by the route (8-12)
RouteDependencies == {}

\* JSONResponse(content=...): a dict is rendered as a JSON object, a list as a
\* JSON array
JsonOf(value, is_dict) ==
    [json |-> IF is_dict THEN "object" ELSE "array", value |-> value]

JsonResponse(status_code, content) == [status |-> status_code, content |-> content]

EndpointInit ==
    /\ ap_token \in RequestTokens
    /\ ap_file \in PipelineFiles
    /\ ap_questions \in SeqsUpTo(PipelineQuestions, MaxQuestions) \ {<<>>}
    /\ ap_response = None
    /\ ap_pc = "request"
    /\ FormatIdle /\ EmbedIdle /\ ClientIdle /\ SharedIdle
    /\ ChunkIdle
    /\ SmartIdle
    /\ SynthIdle
    /\ PipeIdle

\* the request is routed: the dependencies of the route run, then lines 13-14 of
\* ask_questions read the upload and call process_file
ApReceive ==
    /\ ap_pc = "request"
    /\ IF "verify_token" \in RouteDependencies /\ verify_token(ap_token).kind = "raise"
       THEN /\ ap_response' = JsonResponse(401, [detail |-> "Unauthorized"])
            /\ ap_pc' = "responded"
            /\ UNCHANGED <<pf_file, pf_qinput, pf_pc>>
       ELSE /\ pf_file' = ap_file
            /\ pf_qinput' = QuestionsArg(ap_questions)
            /\ pf_pc' = "call"
            /\ ap_pc' = "processing"
            /\ UNCHANGED ap_response
    /\ UNCHANGED <<ap_token, ap_file, ap_questions, pf_questions, pf_document,
                   pf_chunks, pf_answers, pf_qi, pf_results, pf_result, store,
                   pf_calls, pf_log, pf_indexFailed, formatVars, embedVars,
                   clientVars, sharedVars, chunkVars, smartVars, synthVars>>

\* lines 14-15: what process_file returned is put under "answers"
ApRespond ==
    /\ ap_pc = "processing"
    /\ pf_pc \in {"Success", "Failure"}
    /\ ap_response' = JsonResponse(200, [answers |-> JsonOf(pf_result, TRUE)])
    /\ ap_pc' = "responded"
    /\ UNCHANGED <<ap_token, ap_file, ap_questions, pipeVars, formatVars, embedVars,
                   clientVars, sharedVars, chunkVars, smartVars, synthVars>>

EndpointNext == ApReceive \/ Next \/ ApRespond

SpecEndpoint == EndpointInit /\ [][EndpointNext]_vars

(***************************************************************************)
(* Claims about the endpoint, checked under SpecEndpoint.                  *)
(***************************************************************************)
\* C22: the endpoint responds with a JSON object {"answers": [...]} whose
\* "answers" value is the list of the answer strings, in question order, one per
\* submitted question.
C22_ResponseListsAnswers ==
    ap_pc = "responded" =>
        LET answers == ap_response.content.answers
        IN  /\ answers.json = "array"
            /\ Len(answers.value) = Len(ap_questions)
            /\ \A i \in 1..Len(ap_questions) :
                  \E e \in pf_log : e.i = i /\ e.answer = answers.value[i]

\* C23: a request whose bearer token differs from the configured token is
\* rejected with status 401 and its file is never handed to the pipeline.
C23_WrongTokenRejected ==
    ap_token # TOKEN =>
        /\ pf_pc = "idle"
        /\ ap_pc = "responded" => ap_response.status = 401

(***************************************************************************)
(* Claims about errors inside process_file, checked under Spec.            *)
(***************************************************************************)
\* the steps process_file took for the questions after the i-th
StepsAfter(i) ==
    {k \in 1..Len(pf_calls) :
        pf_calls[k].op \in {"Retrieve", "Synthesize"} /\ pf_calls[k].n > i}

\* C24: if synthesizing the answer of question i raises, process_file returns
\* Failure with answers = []: the answers computed for the questions before i are
\* discarded and the questions after i are not processed; a failed retrieval, by
\* contrast, never ends the request.
C24_SynthesisErrorIsFatal ==
    /\ (pf_pc = "Failure" /\ PfLastOp = "Synthesize") =>
          /\ pf_result.success = FALSE
          /\ pf_result.answers = <<>>
          /\ Len(pf_answers) = pf_qi - 1
          /\ StepsAfter(pf_qi) = {}
          /\ \A k \in 1..Len(pf_calls) : pf_calls[k].op # "Assemble"
    /\ (PfReturned /\ PfLastOp = "Synthesize") => pf_pc = "Failure"
    /\ PfLastOp = "Retrieve" => ~PfReturned

\* the synthesis of the second question raised after the first question had
\* been answered
C24_Witness ==
    /\ pf_pc = "Failure"
    /\ PfLastOp = "Synthesize"
    /\ pf_qi = 2
    /\ Len(pf_answers) = 1
    /\ pf_answers[1] # NoRelevantMsg

(***************************************************************************)
(* embed_and_store (embedder.py 55-108) as a process: one call, one step   *)
(* per batch.                                                              *)
(***************************************************************************)
MaxBatches == 2

\* the chunks of a document "doc" as the chunker numbers them
DocChunks(n) ==
    [i \in 1..n |->
        [id       |-> ChunkId("doc", i - 1),
         text     |-> <<"a">>,
         metadata |-> [source |-> "doc", chunk_index |-> i - 1, token_count |-> 1]]]

\* lists of chunks around the batch boundaries
EmbedDocs ==
    {DocChunks(n) : n \in {0, 1} \cup {b * BATCH_SIZE + d :
                                          b \in 1..MaxBatches, d \in {-1, 0, 1}}}

\* the index as earlier calls left it: empty, holding another document, holding
\* the first batch of this document, holding an older version of its chunks
EmbedStores ==
    InitialStores
        \cup {{DocChunks(BATCH_SIZE)[i] : i \in 1..BATCH_SIZE}}
        \cup {{[DocChunks(BATCH_SIZE + 1)[i] EXCEPT !.text = <<"b">>] :
                   i \in {1, BATCH_SIZE + 1}}}

\* faulty variant (C25): the slice of the batch starts one entry late
UpsertBatch_late(index, to_upsert, i, batch_size) ==
    Upsert(index, PySlice(to_upsert, i + 1, i + batch_size))

\* lines 100-102: batch = to_upsert[i:i + batch_size]; index.upsert(vectors=batch)
UpsertBatch(index, to_upsert, i, batch_size) ==
    Upsert(index, PySlice(to_upsert, i, i + batch_size))

EmbedInit ==
    /\ es_docs \in EmbedDocs
    /\ store \in EmbedStores
    /\ es_before = store
    /\ es_upsert = <<>>
    /\ es_i = 0
    /\ es_outcome = None
    /\ es_pc = "call"
    /\ pf_file = None /\ pf_qinput = None /\ pf_questions = <<>>
    /\ pf_document = <<>> /\ pf_chunks = <<>> /\ pf_answers = <<>>
    /\ pf_qi = 0 /\ pf_results = <<>> /\ pf_result = None /\ pf_pc = "idle"
    /\ pf_calls = <<>> /\ pf_log = {} /\ pf_indexFailed = FALSE
    /\ FormatIdle /\ ApiIdle /\ ClientIdle /\ SharedIdle
    /\ ChunkIdle
    /\ SmartIdle
    /\ SynthIdle

\* lines 68-94: nothing to do without chunks; else the texts are embedded, which
\* can fail, and the entries to write are built
EsEnter ==
    /\ es_pc = "call"
    /\ \/ /\ es_docs = <<>>
          /\ es_outcome' = Returned("")
          /\ es_pc' = "done"
          /\ UNCHANGED es_upsert
       \/ /\ es_docs # <<>>
          /\ es_outcome' = Raised("Exception", "embedding failed")
          /\ es_pc' = "done"
          /\ UNCHANGED es_upsert
       \/ /\ es_docs # <<>>
          /\ es_upsert' = [i \in 1..Len(es_docs) |->
                              [id       |-> es_docs[i].id,
                               text     |-> es_docs[i].text,
                               metadata |-> es_docs[i].metadata]]
          /\ es_pc' = "loop"
          /\ UNCHANGED es_outcome
    /\ es_i' = 0
    /\ UNCHANGED <<es_docs, es_before, store, pf_file, pf_qinput, pf_questions,
                   pf_document, pf_chunks, pf_answers, pf_qi, pf_results, pf_result,
                   pf_pc, pf_calls, pf_log, pf_indexFailed, formatVars, apiVars,
                   clientVars, sharedVars, chunkVars, smartVars, synthVars>>

\* lines 99-106: one iteration of the loop over range(0, len(to_upsert),
\* batch_size); the upsert of the batch succeeds, or fails and is raised again
EsUpsert ==
    /\ es_pc = "loop"
    /\ es_i < Len(es_upsert)
    /\ \/ /\ store' = UpsertBatch(store, es_upsert, es_i, BATCH_SIZE)
          /\ es_i' = es_i + BATCH_SIZE
          /\ UNCHANGED <<es_outcome, es_pc>>
       \/ /\ es_outcome' = UpsertFailure
          /\ es_pc' = "done"
          /\ UNCHANGED <<store, es_i>>
    /\ UNCHANGED <<es_docs, es_upsert, es_before, pf_file, pf_qinput, pf_questions,
                   pf_document, pf_chunks, pf_answers, pf_qi, pf_results, pf_result,
                   pf_pc, pf_calls, pf_log, pf_indexFailed, formatVars, apiVars,
                   clientVars, sharedVars, chunkVars, smartVars, synthVars>>

\* line 108: the range is exhausted, the call returns
EsReturn ==
    /\ es_pc = "loop"
    /\ es_i >= Len(es_upsert)
    /\ es_outcome' = Returned("")
    /\ es_pc' = "done"
    /\ UNCHANGED <<es_docs, es_upsert, es_i, es_before, pipeVars, formatVars, apiVars,
                   clientVars, sharedVars, chunkVars, smartVars, synthVars>>

EmbedNext == EsEnter \/ EsUpsert \/ EsReturn

SpecEmbed == EmbedInit /\ [][EmbedNext]_vars

(***************************************************************************)
(* Claims about embed_and_store, checked under SpecEmbed.                  *)
(***************************************************************************)
\* how many chunks have been written: those of the batches before es_i
EsWritten == IF es_i < Len(es_docs) THEN es_i ELSE Len(es_docs)

\* the index holds the first n chunks of the call, and under every other id what
\* it held when the call began
HoldsFirstChunks(n) ==
    /\ \A k \in 1..n :
          \E e \in store : /\ e.id = es_docs[k].id
                           /\ e.text = es_docs[k].text
                           /\ e.metadata = es_docs[k].metadata
    /\ \A e \in store :
          \/ \E k \in 1..n : e.id = es_docs[k].id
          \/ e \in es_before
    /\ \A e \in es_before :
          \/ \E k \in 1..n : e.id = es_docs[k].id
          \/ e \in store
    /\ \A e, f \in store : e.id = f.id => e = f

EsFailed == es_pc = "done" /\ es_outcome.kind = "raise"

\* chunks are written in order in batches of 100, the call stops at the first
\* batch whose upsert fails and raises its error, and the batches written before
\* it stay in the index
BatchesInOrderNoRollback ==
    /\ es_i % BATCH_SIZE = 0
    /\ HoldsFirstChunks(EsWritten)
    /\ es_pc = "done" =>
          \/ es_outcome = Returned("") /\ EsWritten = Len(es_docs)
          \/ es_outcome = UpsertFailure /\ es_i < Len(es_docs)
          \/ es_outcome = Raised("Exception", "embedding failed") /\ es_i = 0

\* C25 as stated: embed_and_store upserts the chunks in order in batches of 100
\* and stops at the first batch whose upsert fails, raising the error again; the
\* batches upserted before it stay in the index; so a call that fails leaves the
\* index unchanged only if the very first batch failed.
C25_UnchangedOnlyIfFirstBatchFailed ==
    /\ BatchesInOrderNoRollback
    /\ (EsFailed /\ store = es_before) => (es_outcome = UpsertFailure /\ es_i = 0)

\* C25 as amended: the chunks are upserted in order in batches of 100, the call
\* stops at the first batch whose upsert fails and raises the error again, and
\* the batches upserted before it stay in the index; so a call that fails leaves
\* the index unchanged only if no batch was written before the failure (the
\* first batch failed, or the embedding failed before any upsert) or every chunk
\* written was already in the index as it is.
C25_UnchangedOnlyIfNothingNewWritten ==
    /\ BatchesInOrderNoRollback
    /\ (EsFailed /\ store = es_before) =>
          \/ es_i = 0
          \/ \A k \in 1..es_i : \E e \in es_before :
                /\ e.id = es_docs[k].id
                /\ e.text = es_docs[k].text
                /\ e.metadata = es_docs[k].metadata

\* the upsert of the third batch failed after two batches had been written over
\* an index that held an older version of the first chunk
C25_Witness ==
    /\ EsFailed
    /\ es_outcome = UpsertFailure
    /\ es_i = 2 * BATCH_SIZE
    /\ store # es_before
    /\ \E e \in es_before : e.id = es_docs[1].id /\ e \notin store

(***************************************************************************)
(* The keyword dispatch of generate_improved_answer on questions built     *)
(* from its keywords: one call on a context that passes the filter.        *)
(***************************************************************************)
EarlierKeywords ==
    GeneralKeywords \o EntityKeywords \o TemporalKeywords \o FinancialKeywords
        \o CoverageKeywords

AllKeywords == EarlierKeywords \o ExclusionKeywords

Q_NOT_COVERED == <<"I", "s", " ", "i", "t", " ", "N", "O", "T", " ", "C", "O", "V", "E", "R", "E", "D", "?">>

\* every keyword alone, every exclusion keyword before and behind every keyword,
\* a question in capitals, a question without keyword
DispatchQuestions ==
    {AllKeywords[k] : k \in 1..Len(AllKeywords)}
        \cup {ExclusionKeywords[e] \o <<" ">> \o AllKeywords[k] :
                 e \in 1..Len(ExclusionKeywords), k \in 1..Len(AllKeywords)}
        \cup {AllKeywords[k] \o <<" ">> \o ExclusionKeywords[e] :
                 e \in 1..Len(ExclusionKeywords), k \in 1..Len(AllKeywords)}
        \cup {Q_NOT_COVERED, Q_why}

DispatchInit ==
    /\ sy_retrieved \in {<<[score |-> 90, text |-> <<"a">>]>>,
                         <<[score |-> 90, text |-> <<"excluded">>]>>}
    /\ sy_question \in DispatchQuestions
    /\ sy_outcome = None
    /\ sy_pc = "call"
    /\ sy_handler = ""
    /\ sy_context = <<>>
    /\ sy_second = None
    /\ ChunkIdle
    /\ SmartIdle
    /\ PipeIdle
    /\ OuterIdle

SpecDispatch == DispatchInit /\ [][SynthNext]_vars

(***************************************************************************)
(* Claims about the dispatch, checked under SpecDispatch.                  *)
(***************************************************************************)
NotCover == <<"n", "o", "t", " ", "c", "o", "v", "e", "r">>

Cover == <<"c", "o", "v", "e", "r">>

\* C26: the exclusion handler is chosen only for questions that contain an
\* exclusion keyword and no keyword of the five earlier sets; a question that
\* contains "not cover" contains "cover" and goes to the coverage handler or an
\* earlier one, so "not cover" never selects the exclusion handler.
C26_NotCoverNeverSelectsExclusion ==
    sy_pc # "call" =>
        LET q == LowerText(sy_question)
        IN  /\ sy_handler = "exclusion" =>
                  /\ AnyOccurs(ExclusionKeywords, q)
                  /\ ~AnyOccurs(EarlierKeywords, q)
                  /\ ~Occurs(NotCover, q)
            /\ Occurs(NotCover, q) =>
                  /\ Occurs(Cover, q)
                  /\ sy_handler \in {"general", "entity", "temporal", "financial",
                                     "coverage"}

\* a call on a question whose only keywords are "not cover" and "cover", which
\* went to the coverage handler
C26_Witness ==
    /\ sy_pc = "done"
    /\ sy_question = Q_NOT_COVERED
    /\ sy_handler = "coverage"

(***************************************************************************)
(* Claims about the metadata of chunk_text, checked under                  *)
(* SpecChunkScenario.                                                      *)
(***************************************************************************)
\* C27: for chunk_size > chunk_overlap >= 0 and a text of N tokens, every chunk
\* chunk_text has emitted has a start_token that is a multiple of
\* chunk_size - chunk_overlap and less than N, token_count =
\* min(chunk_size, N - start_token) and end_token = start_token + chunk_size,
\* not clamped to N; so end_token - start_token = token_count exactly for the
\* full windows, and end_token exceeds N exactly for the windows cut short.
C27_ChunkMetadata ==
    ChunkConfigValid =>
        \A k \in 1..Len(ct_chunks) :
            LET m == ct_chunks[k].metadata
            IN  /\ m.start_token >= 0
                /\ m.start_token < ct_N
                /\ m.start_token % (ct_size - ct_overlap) = 0
                /\ m.token_count = Min(ct_size, ct_N - m.start_token)
                /\ m.end_token = m.start_token + ct_size
                /\ (m.end_token - m.start_token = m.token_count)
                      <=> (m.start_token + ct_size <= ct_N)
                /\ (m.end_token > ct_N) <=> (m.token_count < ct_size)

\* a finished call on 500 tokens whose last chunk is cut short: its end_token
\* lies beyond the tokens and its token_count is less than the difference
C27_Witness ==
    /\ ChunkDone
    /\ ct_N = 500
    /\ Len(ct_chunks) = 2
    /\ ct_chunks[2].metadata.end_token = 750
    /\ ct_chunks[2].metadata.token_count = 150
    /\ ct_chunks[1].metadata.end_token - ct_chunks[1].metadata.start_token
          = ct_chunks[1].metadata.token_count

(***************************************************************************)
(* Claims about the paragraphs of smart_chunk_text, checked under          *)
(* SpecSplitter.                                                           *)
(***************************************************************************)
\* the paragraphs of the text, trimmed, that are non-empty and fit chunk_size
FittingParagraphs ==
    LET raw == SplitParagraphs(sm_text)
    IN  SelectSeq([i \in 1..Len(raw) |-> Strip(raw[i])],
                  LAMBDA par : par # <<>> /\ Len(Encode(par)) <= sm_size)

\* the paragraphs the buffered chunks hold, chunk after chunk
EmittedParagraphs ==
    Flatten([k \in 1..Len(sm_chunks) |->
                IF IsSubChunk(sm_chunks[k]) THEN <<>>
                ELSE SplitParagraphs(sm_chunks[k].text)])

\* a step of the loop that flushes the buffer into a chunk
FlushesInLoop ==
    /\ sm_pc = "loop" /\ sm_paragraphs # <<>>
    /\ Len(sm_chunks') > Len(sm_chunks)
    /\ sm_current # <<>>

\* C28: smart_chunk_text neither loses, duplicates nor reorders paragraphs: the
\* paragraphs that are non-empty and fit chunk_size appear trimmed, each once
\* and in input order, in the buffered chunks of the finished call; and inside
\* the loop a buffer is flushed only when it would exceed chunk_size tokens with
\* the next paragraph appended (what is left at the end is flushed last).
C28_ParagraphsKeptInOrder ==
    /\ [](sm_pc = "done" /\ Strip(sm_text) # <<>>
             => EmittedParagraphs = FittingParagraphs)
    /\ [][FlushesInLoop =>
             /\ sm_chunks'[Len(sm_chunks) + 1].text = sm_current
             /\ ~IsSubChunk(sm_chunks'[Len(sm_chunks) + 1])
             /\ Len(Encode(sm_current \o <<"\n", "\n">> \o Strip(sm_paragraphs[1])))
                   > sm_size]_vars

\* a finished call that packed two paragraphs into one chunk, flushed it for a
\* third paragraph that did not fit with them, and flushed that one at the end
C28_Witness ==
    /\ sm_pc = "done"
    /\ Len(sm_chunks) = 2
    /\ Len(SplitParagraphs(sm_chunks[1].text)) = 2
    /\ Len(FittingParagraphs) = 3
    /\ ~IsSubChunk(sm_chunks[2])

(***************************************************************************)
(* make_api_request (streamlit_app/app.py 137-171) as a process: one call, *)
(* one step per attempt.                                                   *)
(***************************************************************************)
MAX_RETRIES == 3

RETRY_DELAY == 1

\* what requests.post and response.json() can do: a response with a status and
\* a body that is JSON or not, or an exception of one of the classes of
\* requests.exceptions, or any other exception
PostOutcomes ==
    {[kind |-> "response", status |-> st, json |-> j] :
        st \in {200, 401, 500}, j \in BOOLEAN}
        \cup {[kind |-> "raise", class |-> c] :
                 c \in {"ReadTimeout", "ConnectTimeout", "ConnectionError", "Exception"}}

\* faulty variant (C30): a connection error is retried like a timeout
ExceptClause_retryall(class) ==
    IF class \in {"ReadTimeout", "ConnectTimeout", "ConnectionError"} THEN "Timeout"
    ELSE "Exception"

\* lines 160-169: the first except clause that matches the exception; the two
\* timeouts are subclasses of Timeout, ConnectTimeout of ConnectionError as well
ExceptClause(class) ==
    IF class \in {"ReadTimeout", "ConnectTimeout"} THEN "Timeout"
    ELSE IF class = "ConnectionError" THEN "ConnectionError"
    ELSE "Exception"

\* lines 154-158: the result of a response; response.json() raises on a body
\* that is not JSON, which the last except clause turns into a result
ResponseResult(outcome) ==
    IF outcome.status < 400
    THEN IF outcome.json
         THEN [success |-> TRUE, data |-> "response.json()"]
         ELSE [success |-> FALSE, error |-> "Unexpected error: JSONDecodeError"]
    ELSE [success |-> FALSE,
          error |-> "API Error " \o ToString(outcome.status) \o ": response.text"]

ClientInit ==
    /\ cl_questions \in SeqsUpTo(PipelineQuestions, MaxQuestions)
    /\ cl_attempt = 0
    /\ cl_delay = 0
    /\ cl_result = None
    /\ cl_pc = "call"
    /\ cl_posts = <<>>
    /\ cl_sleeps = <<>>
    /\ FormatIdle /\ EmbedIdle /\ ApiIdle /\ SharedIdle
    /\ ChunkIdle
    /\ SmartIdle
    /\ SynthIdle
    /\ PipeIdle

\* lines 139-142
ClEnter ==
    /\ cl_pc = "call"
    /\ cl_attempt' = 0
    /\ cl_delay' = RETRY_DELAY
    /\ cl_pc' = "loop"
    /\ UNCHANGED <<cl_questions, cl_result, cl_posts, cl_sleeps, formatVars,
                   embedVars, apiVars, sharedVars, chunkVars, smartVars, synthVars,
                   pipeVars>>

\* lines 142-171: one iteration of for attempt in range(max_retries), or the
\* statement behind the loop when the range is exhausted
ClAttempt ==
    /\ cl_pc = "loop"
    /\ IF cl_attempt >= MAX_RETRIES
       THEN /\ cl_result' = [success |-> FALSE, error |-> "Max retries exceeded"]
            /\ cl_pc' = "done"
            /\ UNCHANGED <<cl_attempt, cl_delay, cl_posts, cl_sleeps>>
       ELSE \E outcome \in PostOutcomes :
               /\ cl_posts' = Append(cl_posts, [questions |-> cl_questions,
                                                outcome   |-> outcome])
               /\ IF outcome.kind = "response"
                  THEN /\ cl_result' = ResponseResult(outcome)
                       /\ cl_pc' = "done"
                       /\ UNCHANGED <<cl_attempt, cl_delay, cl_sleeps>>
                  ELSE IF ExceptClause(outcome.class) = "Timeout"
                  THEN IF cl_attempt < MAX_RETRIES - 1
                       THEN /\ cl_sleeps' = Append(cl_sleeps, cl_delay)
                            /\ cl_delay' = cl_delay * 2
                            /\ cl_attempt' = cl_attempt + 1
                            /\ UNCHANGED <<cl_result, cl_pc>>
                       ELSE /\ cl_result' = [success |-> FALSE,
                                  error |-> "Request timeout. The document might be too large or complex."]
                            /\ cl_pc' = "done"
                            /\ UNCHANGED <<cl_attempt, cl_delay, cl_sleeps>>
                  ELSE /\ cl_result' =
                              IF ExceptClause(outcome.class) = "ConnectionError"
                              THEN [success |-> FALSE,
                                    error |-> "Cannot connect to API server. Please ensure the server is running."]
                              ELSE [success |-> FALSE,
                                    error |-> "Unexpected error: " \o outcome.class]
                       /\ cl_pc' = "done"
                       /\ UNCHANGED <<cl_attempt, cl_delay, cl_sleeps>>
    /\ UNCHANGED <<cl_questions, formatVars, embedVars, apiVars, sharedVars,
                   chunkVars, smartVars, synthVars, pipeVars>>

ClientNext == ClEnter \/ ClAttempt

SpecClient == ClientInit /\ [][ClientNext]_vars

(***************************************************************************)
(* Claims about make_api_request, checked under SpecClient.                *)
(***************************************************************************)
TimedOut(post) ==
    post.outcome.kind = "raise" /\ post.outcome.class \in {"ReadTimeout", "ConnectTimeout"}

\* C30: make_api_request sends at most 3 POST requests; a further attempt is
\* made only after the previous one timed out, after a sleep of 1 s and then of
\* 2 s; a response of any status, a connection error or another exception ends
\* the call at once; the call always returns a result with a success field (true
\* exactly for an ok response) and never raises.
C30_RetriesOnlyAfterTimeout ==
    /\ Len(cl_posts) <= 3
    /\ \A k \in 1..(Len(cl_posts) - 1) : TimedOut(cl_posts[k])
    /\ cl_pc \in {"idle", "call", "loop", "done"}
    /\ cl_pc = "loop" =>
          /\ \A k \in 1..Len(cl_posts) : TimedOut(cl_posts[k])
          /\ Len(cl_posts) < 3
          /\ cl_sleeps = SubSeq(<<1, 2>>, 1, Len(cl_posts))
    /\ cl_pc = "done" =>
          /\ Len(cl_posts) >= 1
          /\ cl_sleeps = SubSeq(<<1, 2>>, 1, Len(cl_posts) - 1)
          /\ TimedOut(cl_posts[Len(cl_posts)]) => Len(cl_posts) = 3
          /\ "success" \in DOMAIN cl_result
          /\ cl_result.success \in BOOLEAN
          /\ cl_result.success <=>
                LET last == cl_posts[Len(cl_posts)].outcome
                IN  last.kind = "response" /\ last.status < 400 /\ last.json
          /\ ~cl_result.success => cl_result.error # "Max retries exceeded"

\* a call whose first two attempts timed out and whose third got an ok response
C30_Witness ==
    /\ cl_pc = "done"
    /\ Len(cl_posts) = 3
    /\ cl_sleeps = <<1, 2>>
    /\ cl_result.success

(***************************************************************************)
(* Several requests on the one index: process_file called again after it   *)
(* returned, and the upserts of a request running in another worker.       *)
(***************************************************************************)
MaxRequests == 2

\* two versions of a.txt: two paragraphs that make two chunks at the default
\* chunk_size, and one short paragraph
SharedFiles ==
    {[name |-> "a.txt", unreadable |-> FALSE,
      raw |-> [i \in 1..201 |-> "a"] \o <<"\n", "\n">>
                  \o [i \in 1..201 |-> IF i = 1 THEN "hospitalisation" ELSE "a"]],
     [name |-> "a.txt", unreadable |-> FALSE, raw |-> <<"coverage">>]}

\* what a request running elsewhere upserts meanwhile
OtherBatches ==
    {<<[id |-> "c.txt-chunk-0", text |-> <<"excluded">>,
        metadata |-> [source |-> "c.txt", chunk_index |-> 0, token_count |-> 1]]>>}

SharedInit ==
    /\ pf_file \in SharedFiles
    /\ pf_qinput = QuestionsArg(<<Q_cover>>)
    /\ store \in InitialStores
    /\ rq_initial = store
    /\ rq_served = 0
    /\ rq_written = <<>>
    /\ pf_questions = <<>>
    /\ pf_document = <<>>
    /\ pf_chunks = <<>>
    /\ pf_answers = <<>>
    /\ pf_qi = 0
    /\ pf_results = <<>>
    /\ pf_result = None
    /\ pf_pc = "call"
    /\ pf_calls = <<>>
    /\ pf_log = {}
    /\ pf_indexFailed = FALSE
    /\ FormatIdle /\ EmbedIdle /\ ApiIdle /\ ClientIdle
    /\ ChunkIdle
    /\ SmartIdle
    /\ SynthIdle

\* process_file has returned and is called for the next request: new arguments
\* and locals, the index of the module (embedder.py 16-48, retriever.py 16-17)
\* as the requests before left it
PfNextRequest ==
    /\ pf_pc \in {"Success", "Failure"}
    /\ rq_served < MaxRequests - 1
    /\ rq_served' = rq_served + 1
    /\ pf_file' \in SharedFiles
    /\ pf_qinput' = QuestionsArg(<<Q_cover>>)
    /\ pf_questions' = <<>>
    /\ pf_document' = <<>>
    /\ pf_chunks' = <<>>
    /\ pf_answers' = <<>>
    /\ pf_qi' = 0
    /\ pf_results' = <<>>
    /\ pf_result' = None
    /\ pf_pc' = "call"
    /\ pf_calls' = <<>>
    /\ pf_log' = {}
    /\ pf_indexFailed' = FALSE
    /\ UNCHANGED <<store, rq_written, rq_initial, formatVars, embedVars, apiVars,
                   clientVars, chunkVars, smartVars, synthVars>>

\* index.upsert (embedder.py 102) by a request that runs in another worker
OtherUpsert ==
    /\ pf_pc \in {"Index", "Retrieve", "Synthesize"}
    /\ \E batch \in OtherBatches :
          /\ \A k \in 1..Len(rq_written) : rq_written[k] # batch[1]
          /\ store' = Upsert(store, batch)
          /\ rq_written' = rq_written \o batch
    /\ UNCHANGED <<pf_file, pf_qinput, pf_questions, pf_document, pf_chunks,
                   pf_answers, pf_qi, pf_results, pf_result, pf_pc, pf_calls, pf_log,
                   pf_indexFailed, rq_served, rq_initial, formatVars, embedVars,
                   apiVars, clientVars, chunkVars, smartVars, synthVars>>

SharedNext == Next \/ PfNextRequest \/ OtherUpsert

SpecShared == SharedInit /\ [][SharedNext]_vars

(***************************************************************************)
(* Claims about the shared index, checked under SpecShared.                *)
(***************************************************************************)
\* the entry is the last one written under its id
LastWritten(k) ==
    \A j \in (k + 1)..Len(rq_written) : rq_written[j].id # rq_written[k].id

EverWritten(id) == \E k \in 1..Len(rq_written) : rq_written[k].id = id

\* a match is an entry some request has stored, whatever its source
StoredByARequest(match) ==
    \E e \in rq_initial \cup {rq_written[k] : k \in 1..Len(rq_written)} :
        e.text = match.text /\ e.metadata = match.metadata

\* C29: the index is shared by all requests and process_file never deletes from
\* it: after any sequence of calls it holds, for each chunk id ever upserted,
\* the chunk most recently written under that id, and still holds what it held
\* under the other ids; the matches of a question are entries of the index of
\* any source, stored by this request or by another.
C29_IndexKeepsLastWritten ==
    /\ \A k \in 1..Len(rq_written) : LastWritten(k) => rq_written[k] \in store
    /\ \A e \in rq_initial : ~EverWritten(e.id) => e \in store
    /\ \A e \in store :
          \/ e \in rq_initial /\ ~EverWritten(e.id)
          \/ \E k \in 1..Len(rq_written) : rq_written[k] = e /\ LastWritten(k)
    /\ \A i \in 1..Len(pf_results) : StoredByARequest(pf_results[i])

\* the second request indexed the short a.txt as one chunk; the index still
\* holds chunk 1 of the longer a.txt of the first request, and the matches of
\* the question are that chunk and the chunk of a request running elsewhere
C29_Witness ==
    /\ rq_served = 1
    /\ pf_pc = "Synthesize"
    /\ Len(pf_chunks) = 1
    /\ \E e \in store :
          /\ e.id = "a.txt-chunk-1"
          /\ e.metadata.source = pf_file.name
          /\ pf_results[1].metadata = e.metadata
          /\ pf_results[1].text = e.text
    /\ Len(pf_results) = 2
    /\ pf_results[2].metadata.source = "c.txt"
=============================================================================
